---- MODULE Spec2Model ----
(***************************************************************************)
(* State-machine model of the anki-vexillology pipeline:                   *)
(*   download_flags.py    - image acquisition stage                        *)
(*   create_anki_deck.py  - table extraction, detail extraction, asset     *)
(*                          matching, deck assembly and the main run       *)
(*                                                                         *)
(* Text is modelled as a sequence of one-character strings, so that the    *)
(* string operations of the source (replace, lower, split, slicing,        *)
(* substring containment, basename) are computed and not assumed.          *)
(*                                                                         *)
(* Layout: 1 state, 2 the functions of the source as operators, 3 the      *)
(* specifications (one per function or script), 4 the properties.          *)
(***************************************************************************)
EXTENDS Integers, Sequences, FiniteSets, TLC

(***************************************************************************)
(* 1. State                                                                *)
(***************************************************************************)
VARIABLES
    pc,             \* position of the running function or script
    filename,       \* sanitize_filename: the argument
    sanitized,      \* sanitize_filename: the returned text
    disk,           \* the paths for which os.path.exists is true
    countries_data, \* create_anki_deck: the sequence of joined records
    record_index,   \* create_anki_deck: records consumed by the for loop
    deck,           \* create_anki_deck: notes, media_files, notes_added, notes_skipped
    country_info,   \* find_flag_image_file: the candidate (country, img_alt)
    flags_dir_exists, \* whether os.path.exists(flags_dir)
    flag_files,     \* os.listdir(flags_dir), in the order the filesystem gives
    matched_path,   \* find_flag_image_file: the returned path or None
    html_content,   \* extract_country_flag_info: the markup of the index page
    countries_info, \* extract_country_flag_info: the returned candidates
    response,       \* get_flag_details: the response to its request
    details,        \* get_flag_details: the returned record (NoDetails for None)
    subdirs,        \* the entries of flag_files that are directories
    index_fetch,    \* main: "pending", "ok" or "failed" fetch of the index page
    candidate_index,\* main: candidates consumed by the for loop
    events,         \* main: the matches, detail fetches and delays so far, in order
    fetched,        \* main: the responses the detail fetches received, in order
    package_written,\* main: whether write_to_file has run
    summary,        \* main: None, then the printed <<cards added, cards skipped>>
    exit_status,    \* main: -1 while running, then the exit status 0 or 1
    flag_images,    \* download main: the extracted image list
    image_index,    \* download main: images consumed by the for loop
    success_count,  \* download main
    fail_count,     \* download main
    run,            \* the number of the current run of the download stage
    start_disk      \* the files that existed when the current run started

sanitizeVars == <<filename, sanitized>>
deckVars == <<disk, countries_data, record_index, deck>>
matchVars == <<country_info, flags_dir_exists, flag_files, matched_path>>
extractVars == <<html_content, countries_info>>
detailVars == <<response, details>>
mainVars == <<subdirs, index_fetch, candidate_index, events, fetched, package_written, summary, exit_status>>
downloadVars == <<flag_images, image_index, success_count, fail_count, run, start_disk>>
vars == <<pc, filename, sanitized, disk, countries_data, record_index, deck,
          country_info, flags_dir_exists, flag_files, matched_path,
          html_content, countries_info, response, details,
          subdirs, index_fetch, candidate_index, events, fetched, package_written, summary, exit_status,
          flag_images, image_index, success_count, fail_count, run, start_disk>>

\* None: a one-element sequence whose element is no character, so it differs
\* from every text (also from the empty text).
None == <<"None">>

(***************************************************************************)
(* 2. Functions                                                            *)
(***************************************************************************)

\* ---- text helpers (Python str operations) ----

\* All sequences over S of length 0..n.
SeqsUpTo(S, n) == UNION {[1..k -> S] : k \in 0..n}

\* str.replace(old, new) for a one-character old; new is any text.
RECURSIVE Replace(_, _, _)
Replace(s, old, new) ==
    IF s = <<>> THEN <<>>
    ELSE (IF Head(s) = old THEN new ELSE <<Head(s)>>) \o Replace(Tail(s), old, new)

\* `sub in s` for two texts.
Contains(sub, s) ==
    \E i \in 0..(Len(s) - Len(sub)) : SubSeq(s, i + 1, i + Len(sub)) = sub

\* str.lower() on the ASCII letters; every other character is kept.
UpperLetters == <<"A", "B", "C", "D", "E", "F", "G", "H", "I", "J", "K", "L", "M",
                  "N", "O", "P", "Q", "R", "S", "T", "U", "V", "W", "X", "Y", "Z">>
LowerLetters == <<"a", "b", "c", "d", "e", "f", "g", "h", "i", "j", "k", "l", "m",
                  "n", "o", "p", "q", "r", "s", "t", "u", "v", "w", "x", "y", "z">>

LowerChar(c) ==
    IF \E i \in 1..Len(UpperLetters) : UpperLetters[i] = c
    THEN LowerLetters[CHOOSE i \in 1..Len(UpperLetters) : UpperLetters[i] = c]
    ELSE c

lower(s) == [i \in 1..Len(s) |-> LowerChar(s[i])]

\* str.split(): the maximal runs of non-whitespace characters, in order.
\* cur is the word being read.
RECURSIVE SplitFrom(_, _)
SplitFrom(s, cur) ==
    IF s = <<>> THEN (IF cur = <<>> THEN <<>> ELSE <<cur>>)
    ELSE IF Head(s) = " "
         THEN (IF cur = <<>> THEN <<>> ELSE <<cur>>) \o SplitFrom(Tail(s), <<>>)
         ELSE SplitFrom(Tail(s), Append(cur, Head(s)))

split(s) == SplitFrom(s, <<>>)

\* str.strip(): leading and trailing whitespace removed.
RECURSIVE lstrip(_)
lstrip(s) == IF s # <<>> /\ Head(s) = " " THEN lstrip(Tail(s)) ELSE s

RECURSIVE rstrip(_)
rstrip(s) ==
    IF s # <<>> /\ s[Len(s)] = " " THEN rstrip(SubSeq(s, 1, Len(s) - 1)) ELSE s

strip(s) == rstrip(lstrip(s))

\* int(text) for a text of decimal digits, surrounding whitespace allowed:
\* ok and the value, or not ok where int raises ValueError.
Digits == <<"0", "1", "2", "3", "4", "5", "6", "7", "8", "9">>

IsDigit(c) == \E d \in 1..Len(Digits) : Digits[d] = c

DigitValue(c) == (CHOOSE d \in 1..Len(Digits) : Digits[d] = c) - 1

RECURSIVE DecimalValue(_, _)
DecimalValue(s, acc) ==
    IF s = <<>> THEN acc ELSE DecimalValue(Tail(s), 10 * acc + DigitValue(Head(s)))

int(text) ==
    LET t == strip(text) IN
    IF t # <<>> /\ \A i \in 1..Len(t) : IsDigit(t[i])
    THEN [ok |-> TRUE, value |-> DecimalValue(t, 0)]
    ELSE [ok |-> FALSE, value |-> 0]

\* The operations below are applied to long texts and are therefore written
\* without recursion.

\* text.strip() for a long text.
Trim(s) ==
    IF \A i \in 1..Len(s) : s[i] = " " THEN <<>>
    ELSE SubSeq(s, CHOOSE i \in 1..Len(s) : s[i] # " " /\ \A j \in 1..(i - 1) : s[j] = " ",
                   CHOOSE i \in 1..Len(s) : s[i] # " " /\ \A j \in (i + 1)..Len(s) : s[j] = " ")

\* text.startswith(prefix)
startswith(s, prefix) == Len(prefix) <= Len(s) /\ SubSeq(s, 1, Len(prefix)) = prefix

\* text[:n]
Slice(s, n) == SubSeq(s, 1, IF n < Len(s) THEN n ELSE Len(s))

\* re.sub(r'\[.*?\]', '', text): from each '[' outside a removed span to the
\* nearest ']' after it.  The character at i is removed when a ']' follows at
\* or after i and a '[' stands at or before i with no ']' from it up to i.
RemoveCitations(s) ==
    IF \A i \in 1..Len(s) : s[i] # "[" THEN s
    ELSE LET kept == SelectSeq([i \in 1..Len(s) |-> i], LAMBDA i :
                        ~(/\ \E k \in i..Len(s) : s[k] = "]"
                          /\ \E j \in 1..i :
                                s[j] = "[" /\ \A m \in j..(i - 1) : s[m] # "]"))
         IN  [k \in 1..Len(kept) |-> s[kept[k]]]

\* re.sub(r'\s+', ' ', text): each run of whitespace becomes one space.
NormalizeWhitespace(s) ==
    LET kept == SelectSeq([i \in 1..Len(s) |-> i], LAMBDA i :
                    ~(s[i] = " " /\ i > 1 /\ s[i - 1] = " "))
    IN  [k \in 1..Len(kept) |-> s[kept[k]]]

\* text.split('. '): the pieces between the occurrences of '. ', which cannot
\* overlap.
SplitSentences(s) ==
    LET seps == {i \in 1..(Len(s) - 1) : s[i] = "." /\ s[i + 1] = " "}
        n == Cardinality(seps)
        Sep(k) == CHOOSE i \in seps : Cardinality({j \in seps : j < i}) = k - 1
    IN  [k \in 1..(n + 1) |->
            SubSeq(s, IF k = 1 THEN 1 ELSE Sep(k - 1) + 2,
                      IF k = n + 1 THEN Len(s) ELSE Sep(k) - 1)]

\* sep.join(parts)
RECURSIVE Join(_, _)
Join(sep, parts) ==
    IF parts = <<>> THEN <<>>
    ELSE IF Len(parts) = 1 THEN parts[1]
    ELSE parts[1] \o sep \o Join(sep, Tail(parts))

\* `not text`: None and the empty text are falsy.
Falsy(text) == text = None \/ text = <<>>

\* ---- download_flags.py : sanitize_filename ----

\* invalid_chars = '<>:"/\\|?*'
invalid_chars == <<"<", ">", ":", "\"", "/", "\\", "|", "?", "*">>

InvalidCharSet == {invalid_chars[i] : i \in 1..Len(invalid_chars)}

\* for char in invalid_chars[k..]: filename = filename.replace(char, '_')
RECURSIVE SanitizeFrom(_, _)
SanitizeFrom(name, k) ==
    IF k > Len(invalid_chars) THEN name
    ELSE SanitizeFrom(Replace(name, invalid_chars[k], <<"_">>), k + 1)

\* Mutant: the loop stops one character short, so '*' is never replaced.
RECURSIVE SanitizeFromShort(_, _)
SanitizeFromShort(name, k) ==
    IF k >= Len(invalid_chars) THEN name
    ELSE SanitizeFromShort(Replace(name, invalid_chars[k], <<"_">>), k + 1)

sanitize_filename_short(name) == SanitizeFromShort(name, 1)

sanitize_filename(name) == SanitizeFrom(name, 1)

\* ---- create_anki_deck.py : create_anki_deck ----

\* os.path.basename(path): the text after the last '/'.
LastSlash(path) ==
    LET at == {i \in 1..Len(path) : path[i] = "/"}
    IN  IF at = {} THEN 0 ELSE CHOOSE i \in at : \A j \in at : j <= i

basename(path) == SubSeq(path, LastSlash(path) + 1, Len(path))

\* f'<img src="{flag_filename}">'
ImgTag(flag_filename) ==
    <<"<", "i", "m", "g", " ", "s", "r", "c", "=", "\"">> \o flag_filename \o <<"\"", ">">>

\* media_files = [], notes_added = 0, notes_skipped = 0, an empty deck
EmptyDeck == [notes |-> <<>>, media_files |-> <<>>, notes_added |-> 0, notes_skipped |-> 0]

\* Mutant: the bundled media entry is the base file name, not the path.
DeckStepMediaBase(d, country_data, exists) ==
    LET flag_image_path == country_data.flag_image_path IN
    IF Falsy(flag_image_path) \/ flag_image_path \notin exists
    THEN [d EXCEPT !.notes_skipped = @ + 1]
    ELSE [d EXCEPT
            !.notes = Append(@, <<country_data.country,
                                  ImgTag(basename(flag_image_path)),
                                  country_data.description,
                                  country_data.adoption_date>>),
            !.media_files = Append(@, basename(flag_image_path)),
            !.notes_added = @ + 1]

\* Mutant: the skip test leaves out os.path.exists.
DeckStepNoExists(d, country_data, exists) ==
    LET flag_image_path == country_data.flag_image_path IN
    IF Falsy(flag_image_path)
    THEN [d EXCEPT !.notes_skipped = @ + 1]
    ELSE [d EXCEPT
            !.notes = Append(@, <<country_data.country,
                                  ImgTag(basename(flag_image_path)),
                                  country_data.description,
                                  country_data.adoption_date>>),
            !.media_files = Append(@, flag_image_path),
            !.notes_added = @ + 1]

\* One iteration of `for country_data in countries_data`.
DeckStep(d, country_data, exists) ==
    LET flag_image_path == country_data.flag_image_path IN
    IF Falsy(flag_image_path) \/ flag_image_path \notin exists
    THEN [d EXCEPT !.notes_skipped = @ + 1]
    ELSE [d EXCEPT
            !.notes = Append(@, <<country_data.country,
                                  ImgTag(basename(flag_image_path)),
                                  country_data.description,
                                  country_data.adoption_date>>),
            !.media_files = Append(@, flag_image_path),
            !.notes_added = @ + 1]

\* The whole loop, from deck state d over the records of data.
RECURSIVE DeckLoop(_, _, _)
DeckLoop(d, data, exists) ==
    IF data = <<>> THEN d
    ELSE DeckLoop(DeckStep(d, Head(data), exists), Tail(data), exists)

\* create_anki_deck(countries_data): (deck, media_files, notes_added, notes_skipped)
create_anki_deck(data, exists) == DeckLoop(EmptyDeck, data, exists)

\* ---- create_anki_deck.py : find_flag_image_file ----

\* FLAGS_DIR = "flags"
FLAGS_DIR == <<"f", "l", "a", "g", "s">>

\* os.path.join(flags_dir, flag_file)
join(dir, file) == dir \o <<"/">> \o file

\* text.lower().replace(' ', '_')
Normalize(text) == Replace(lower(text), " ", <<"_">>)

\* Mutant: words of 3 characters count as main words too.
MainWordsFrom3(country_name) ==
    SelectSeq(split(country_name), LAMBDA w : Len(w) >= 3)

\* main_words = [w for w in country_name.split() if len(w) > 3]
MainWords(country_name) ==
    SelectSeq(split(country_name), LAMBDA w : Len(w) > 3)

\* Mutant: two passes over the listing, the country name against every file
\* first, the alt text only after no file held the name.
MatchByNameThenAlt(files, country_name, img_alt, dir) ==
    LET byName == {k \in 1..Len(files) : Contains(Normalize(country_name), lower(files[k]))}
        byAlt == {k \in 1..Len(files) :
                     ~Falsy(img_alt) /\ Contains(Normalize(img_alt), lower(files[k]))}
    IN  IF byName # {} THEN join(dir, files[CHOOSE k \in byName : \A j \in byName : k <= j])
        ELSE IF byAlt # {} THEN join(dir, files[CHOOSE k \in byAlt : \A j \in byAlt : k <= j])
        ELSE None

\* First loop: the country name, then the alt text, against each file in turn.
RECURSIVE MatchByName(_, _, _, _)
MatchByName(files, country_name, img_alt, dir) ==
    IF files = <<>> THEN None
    ELSE IF Contains(Normalize(country_name), lower(Head(files)))
         THEN join(dir, Head(files))
    ELSE IF ~Falsy(img_alt) /\ Contains(Normalize(img_alt), lower(Head(files)))
         THEN join(dir, Head(files))
    ELSE MatchByName(Tail(files), country_name, img_alt, dir)

\* for word in main_words: if word.lower() in flag_file.lower()
AnyWordIn(words, file) ==
    \E k \in 1..Len(words) : Contains(lower(words[k]), lower(file))

\* Mutant: the words in the outer loop, the files in the inner one.
MatchByWordWordsFirst(files, country_name, dir) ==
    LET words == MainWords(country_name)
        hit == {w \in 1..Len(words) :
                   \E k \in 1..Len(files) : Contains(lower(words[w]), lower(files[k]))}
        first == CHOOSE w \in hit : \A v \in hit : w <= v
        at == {k \in 1..Len(files) : Contains(lower(words[first]), lower(files[k]))}
    IN  IF hit = {} THEN None
        ELSE join(dir, files[CHOOSE k \in at : \A j \in at : k <= j])

\* Second loop: each file in turn against the main words of the country name.
RECURSIVE MatchByWord(_, _, _)
MatchByWord(files, country_name, dir) ==
    IF files = <<>> THEN None
    ELSE IF AnyWordIn(MainWords(country_name), Head(files))
         THEN join(dir, Head(files))
    ELSE MatchByWord(Tail(files), country_name, dir)

\* find_flag_image_file(country_info, flags_dir); dir_exists and listing are what
\* os.path.exists(flags_dir) and os.listdir(flags_dir) give.
find_flag_image_file(info, dir, dir_exists, listing) ==
    IF ~dir_exists THEN None
    ELSE LET first == MatchByName(listing, info.country, info.img_alt, dir) IN
         IF first # None THEN first
         ELSE MatchByWord(listing, info.country, dir)

\* ---- create_anki_deck.py : extract_country_flag_info ----
\* Markup: a document is a sequence of tables, a table has the class wikitable
\* or not and a sequence of rows (tr), a row is a sequence of cells (td), a cell
\* has its img elements and its links (a) in document order.  An img has src,
\* width and alt, each a text or None when the attribute is missing.

\* 'Flag_of_'
FlagMarker == <<"F", "l", "a", "g", "_", "o", "f", "_">>

\* ['flag', 'edit', 'view']
StopWords == {<<"f", "l", "a", "g">>, <<"e", "d", "i", "t">>, <<"v", "i", "e", "w">>}

\* img.get(attribute, default)
Attr(value, default) == IF value = None THEN default ELSE value

\* Mutant: the marker is tried whenever the width is below 100, not only when
\* the width is no integer.
ImageAcceptedMarkerAlways(img) ==
    /\ ~Falsy(img.src)
    /\ LET width == int(Attr(img.width, <<"0">>)) IN
       \/ width.ok /\ width.value >= 100
       \/ Contains(FlagMarker, Attr(img.src, <<>>))

\* Mutant: a missing width attribute is not read as '0'; int(None) raises
\* and the marker is tried.
ImageAcceptedNoDefault(img) ==
    /\ ~Falsy(img.src)
    /\ IF img.width = None THEN Contains(FlagMarker, Attr(img.src, <<>>))
       ELSE IF int(img.width).ok THEN int(img.width).value >= 100
            ELSE Contains(FlagMarker, Attr(img.src, <<>>))

\* The test on the img of one cell (lines 56-65): src is present and either
\* int(width) >= 100, or int(width) raises and 'Flag_of_' is in src.
ImageAccepted(img) ==
    /\ ~Falsy(img.src)
    /\ LET width == int(Attr(img.width, <<"0">>)) IN
       IF width.ok THEN width.value >= 100
       ELSE Contains(FlagMarker, Attr(img.src, <<>>))

\* for cell in cells: img = cell.find('img') ... break on the first accepted.
\* The result is <<flag_img>>, or <<>> for flag_img = None.
RECURSIVE FindFlagImg(_)
FindFlagImg(cells) ==
    IF cells = <<>> THEN <<>>
    ELSE IF Head(cells).imgs # <<>> /\ ImageAccepted(Head(Head(cells).imgs))
         THEN <<Head(Head(cells).imgs)>>
    ELSE FindFlagImg(Tail(cells))

\* len(text) > 3 and not text.lower() in ['flag', 'edit', 'view']
NameAccepted(text) == Len(text) > 3 /\ lower(text) \notin StopWords

\* for link in links: text = link.get_text().strip() ... break on the first accepted.
RECURSIVE NameInLinks(_)
NameInLinks(links) ==
    IF links = <<>> THEN None
    ELSE IF NameAccepted(strip(Head(links))) THEN strip(Head(links))
    ELSE NameInLinks(Tail(links))

\* for cell in cells: ... if country_name: break
RECURSIVE FindCountryName(_)
FindCountryName(cells) ==
    IF cells = <<>> THEN None
    ELSE IF NameInLinks(Head(cells).links) # None THEN NameInLinks(Head(cells).links)
    ELSE FindCountryName(Tail(cells))

\* The body of `for row in rows`: the candidates the row appends, none or one.
RowCandidates(cells) ==
    IF Len(cells) >= 2 /\ FindFlagImg(cells) # <<>> /\ FindCountryName(cells) # None
    THEN LET flag_img == Head(FindFlagImg(cells)) IN
         << [country |-> FindCountryName(cells),
             img_alt |-> Attr(flag_img.alt, <<>>),
             flag_img_url |-> Attr(flag_img.src, <<>>)] >>
    ELSE <<>>

RECURSIVE RowsCandidates(_)
RowsCandidates(rows) ==
    IF rows = <<>> THEN <<>>
    ELSE RowCandidates(Head(rows)) \o RowsCandidates(Tail(rows))

\* for table in soup.find_all('table', class_='wikitable')
RECURSIVE TablesCandidates(_)
TablesCandidates(tables) ==
    IF tables = <<>> THEN <<>>
    ELSE (IF Head(tables).wikitable THEN RowsCandidates(Head(tables).rows) ELSE <<>>)
         \o TablesCandidates(Tail(tables))

extract_country_flag_info(markup) == TablesCandidates(markup)

\* ---- create_anki_deck.py : get_flag_details ----
\* A response is a network error, or a status code with a page.  A page has
\* or lacks an infobox (rows of th and td texts, None for a missing cell),
\* has or lacks the content block (its direct-child paragraphs), and parsing
\* it raises or not.

\* MAX_DESCRIPTION_PARAGRAPHS = 2
MAX_DESCRIPTION_PARAGRAPHS == 2

\* MAX_DESCRIPTION_LENGTH = 500
MAX_DESCRIPTION_LENGTH == 500

Coordinates == <<"C", "o", "o", "r", "d", "i", "n", "a", "t", "e", "s", ":">>

\* `return None`
NoDetails == [present |-> FALSE, adoption_date |-> None, description |-> None]

\* Lines 110-125: the adoption date from the infobox rows.
RECURSIVE AdoptionDate(_)
AdoptionDate(rows) ==
    IF rows = <<>> THEN None
    ELSE LET header == Head(rows).th
             data == Head(rows).td
             header_text == lower(strip(Attr(header, <<>>)))
         IN  IF /\ header # None
                /\ \/ Contains(<<"a", "d", "o", "p", "t">>, header_text)
                   \/ Contains(<<"d", "e", "s", "i", "g", "n">>, header_text)
                /\ data # None
             THEN strip(RemoveCitations(strip(data)))
             ELSE AdoptionDate(Tail(rows))

\* Lines 133-142: the paragraph loop from description_parts = parts on.
RECURSIVE DescriptionParts(_, _)
DescriptionParts(paragraphs, parts) ==
    IF paragraphs = <<>> THEN parts
    ELSE LET text == Trim(Head(paragraphs)) IN
         IF Len(text) > 50 /\ ~startswith(text, Coordinates)
         THEN LET added == Append(parts, NormalizeWhitespace(RemoveCitations(text))) IN
              IF Len(Join(<<" ">>, added)) > 300 THEN added
              ELSE DescriptionParts(Tail(paragraphs), added)
         ELSE DescriptionParts(Tail(paragraphs), parts)

\* Mutant: every collected paragraph is joined.
JoinDescriptionAll(parts) ==
    IF parts = <<>> THEN None
    ELSE Join(<<" ">>, parts)


\* Line 144: ' '.join(description_parts[:MAX_DESCRIPTION_PARAGRAPHS]) or None
JoinDescription(parts) ==
    IF parts = <<>> THEN None
    ELSE Join(<<" ">>, SubSeq(parts, 1, IF Len(parts) < MAX_DESCRIPTION_PARAGRAPHS
                                        THEN Len(parts) ELSE MAX_DESCRIPTION_PARAGRAPHS))

\* Mutant: the cut is made at the first sentence end, not the last.
TruncateAtFirstBoundary(description) ==
    IF ~Falsy(description) /\ Len(description) > MAX_DESCRIPTION_LENGTH
    THEN LET sentences == SplitSentences(Slice(description, MAX_DESCRIPTION_LENGTH)) IN
         IF Len(sentences) > 1
         THEN sentences[1] \o <<".">>
         ELSE Slice(description, MAX_DESCRIPTION_LENGTH) \o <<".", ".", ".">>
    ELSE description

\* Lines 146-153: the truncation of a description.
Truncate(description) ==
    IF ~Falsy(description) /\ Len(description) > MAX_DESCRIPTION_LENGTH
    THEN LET sentences == SplitSentences(Slice(description, MAX_DESCRIPTION_LENGTH)) IN
         IF Len(sentences) > 1
         THEN Join(<<".", " ">>, SubSeq(sentences, 1, Len(sentences) - 1)) \o <<".">>
         ELSE Slice(description, MAX_DESCRIPTION_LENGTH) \o <<".", ".", ".">>
    ELSE description

\* Lines 107-158: the parse of a page fetched with status 200.
ParseDetails(page) ==
    [present |-> TRUE,
     adoption_date |-> IF page.has_infobox THEN AdoptionDate(page.infobox) ELSE None,
     description |->
        Truncate(JoinDescription(
            IF page.has_content THEN DescriptionParts(Slice(page.paragraphs, 5), <<>>)
            ELSE <<>>))]

\* The outcome of a call: a returned value, or an exception that propagates.
Returned(value) == [raised |-> FALSE, value |-> value]
Raised == [raised |-> TRUE, value |-> NoDetails]

\* Lines 99-158, the body of the try statement: requests.get raises on a
\* network error, a status other than 200 returns None, the parse raises or
\* returns the record.
DetailsTryBody(resp) ==
    IF resp.kind = "network_error" THEN Raised
    ELSE IF resp.status_code # 200 THEN Returned(NoDetails)
    ELSE IF resp.page.raises THEN Raised
    ELSE Returned(ParseDetails(resp.page))

\* Mutant: no except clause, so an exception of the body propagates.
get_flag_details_uncaught(resp) == DetailsTryBody(resp)

\* get_flag_details(country_name), given the response to its request:
\* `except Exception` (line 160) turns every exception of the body into None.
get_flag_details(resp) ==
    IF DetailsTryBody(resp).raised THEN Returned(NoDetails) ELSE DetailsTryBody(resp)

\* ---- create_anki_deck.py : main ----

\* Lines 344-349: the joined record of a matched candidate.
JoinedRecord(country_name, flag_image_path, found) ==
    [country |-> country_name,
     flag_image_path |-> flag_image_path,
     description |-> IF found.present THEN found.description ELSE <<>>,
     adoption_date |-> IF found.present THEN found.adoption_date ELSE <<>>]

\* Mutant: every entry of the listing counts as a file.
FilesOfListing(listing, dirs) == listing

\* Line 304: the entries of the listing that are files.
FilesOf(listing, dirs) == SelectSeq(listing, LAMBDA f : f \notin dirs)

\* The paths under flags_dir for which os.path.exists is true.
PathsOf(dir, listing) == {join(dir, listing[i]) : i \in 1..Len(listing)}

\* ---- download_flags.py : download_image ----

OUTPUT_DIR == <<"f", "l", "a", "g", "s">>

\* The first position from `from` on where text holds a character of chars,
\* or Len(text) + 1.
FirstOf(text, chars, from) ==
    LET at == {i \in from..Len(text) : text[i] \in chars}
    IN  IF at = {} THEN Len(text) + 1 ELSE CHOOSE i \in at : \A j \in at : i <= j

\* urljoin('https:', src) for a source that names no scheme of its own: a
\* protocol-relative source keeps its host, any other is a path under an
\* empty host.
urljoin(src) ==
    IF startswith(src, <<"/", "/">>) THEN <<"h", "t", "t", "p", "s", ":">> \o src
    ELSE IF startswith(src, <<"/">>)
         THEN <<"h", "t", "t", "p", "s", ":", "/", "/">> \o src
         ELSE <<"h", "t", "t", "p", "s", ":", "/", "/", "/">> \o src

\* urlparse(url).path: what follows the host, up to the query or fragment,
\* less the parameters of the last segment.
UrlPath(url) ==
    LET rest == SubSeq(url, 9, Len(url))
        afterHost == SubSeq(rest, FirstOf(rest, {"/", "?", "#"}, 1), Len(rest))
        whole == SubSeq(afterHost, 1, FirstOf(afterHost, {"?", "#"}, 1) - 1)
    IN  SubSeq(whole, 1, FirstOf(whole, {";"}, LastSlash(whole) + 1) - 1)

\* os.path.splitext(path)[1]: from the last dot of the last segment on,
\* unless only dots precede it in that segment.
splitext_ext(path) ==
    LET dots == {i \in (LastSlash(path) + 1)..Len(path) : path[i] = "."}
        dotIndex == IF dots = {} THEN 0 ELSE CHOOSE i \in dots : \A j \in dots : j <= i
    IN  IF dotIndex = 0 THEN <<>>
        ELSE IF \A k \in (LastSlash(path) + 1)..(dotIndex - 1) : path[k] = "."
             THEN <<>>
             ELSE SubSeq(path, dotIndex, Len(path))

endswith(s, suffix) ==
    Len(suffix) <= Len(s) /\ SubSeq(s, Len(s) - Len(suffix) + 1, Len(s)) = suffix

DigitChars == <<"0", "1", "2", "3", "4", "5", "6", "7", "8", "9">>

RECURSIVE Decimal(_)
Decimal(n) == IF n < 10 THEN <<DigitChars[n + 1]>> ELSE Decimal(n \div 10) \o <<DigitChars[(n % 10) + 1]>>

\* f"{index:03d}"
Format03d(index) ==
    LET d == Decimal(index) IN
    IF Len(d) >= 3 THEN d ELSE [k \in 1..(3 - Len(d)) |-> "0"] \o d

\* Mutant: the file name without the index prefix.
TargetNameNoPrefix(img_data, index) ==
    LET base_name == IF ~Falsy(img_data.alt) /\ ~Falsy(strip(img_data.alt))
                     THEN sanitize_filename(img_data.alt)
                     ELSE basename(UrlPath(img_data.url))
        ext == IF splitext_ext(UrlPath(img_data.url)) = <<>>
               THEN <<".", "p", "n", "g">>
               ELSE splitext_ext(UrlPath(img_data.url))
    IN  IF ~endswith(base_name, ext) THEN base_name \o ext ELSE base_name


\* Lines 135-158: the file name of an image, from its alt text or its URL,
\* with the extension of the URL and the index prefix.
TargetName(img_data, index) ==
    LET base_name == IF ~Falsy(img_data.alt) /\ ~Falsy(strip(img_data.alt))
                     THEN sanitize_filename(img_data.alt)
                     ELSE basename(UrlPath(img_data.url))
        ext == IF splitext_ext(UrlPath(img_data.url)) = <<>>
               THEN <<".", "p", "n", "g">>
               ELSE splitext_ext(UrlPath(img_data.url))
        file == IF ~endswith(base_name, ext) THEN base_name \o ext ELSE base_name
    IN  Format03d(index) \o <<"_">> \o file

\* Line 160: filepath
TargetPath(img_data, index) == join(OUTPUT_DIR, TargetName(img_data, index))

\* ---- download_flags.py : extract_flag_images ----

\* row.find_all('img'): the images of the cells of a row, in document order.
RECURSIVE RowImages(_)
RowImages(cells) ==
    IF cells = <<>> THEN <<>> ELSE Head(cells).imgs \o RowImages(Tail(cells))

\* Lines 55-79: the test of one image.
FlagImageAccepted(img) ==
    /\ ~Falsy(Attr(img.src, <<>>))
    /\ LET width == int(Attr(img.width, <<"0">>)) IN
       IF width.ok THEN width.value >= 100
       ELSE \/ Contains(FlagMarker, urljoin(img.src))
            \/ Contains(<<"f", "l", "a", "g", " ", "o", "f">>, lower(Attr(img.alt, <<>>)))

FlagImage(img) ==
    [url |-> urljoin(img.src), alt |-> Attr(img.alt, <<>>), width |-> Attr(img.width, <<"0">>)]

RowFlagImages(cells) ==
    LET accepted == SelectSeq(RowImages(cells), FlagImageAccepted) IN
    [k \in 1..Len(accepted) |-> FlagImage(accepted[k])]

RECURSIVE RowsFlagImages(_)
RowsFlagImages(rows) ==
    IF rows = <<>> THEN <<>> ELSE RowFlagImages(Head(rows)) \o RowsFlagImages(Tail(rows))

RECURSIVE TablesFlagImages(_)
TablesFlagImages(tables) ==
    IF tables = <<>> THEN <<>>
    ELSE (IF Head(tables).wikitable THEN RowsFlagImages(Head(tables).rows) ELSE <<>>)
         \o TablesFlagImages(Tail(tables))

extract_flag_images(markup) == TablesFlagImages(markup)

(***************************************************************************)
(* 3. Specifications                                                       *)
(***************************************************************************)

\* The state of a function that a specification does not run.
SanitizeIdle == filename = <<>> /\ sanitized = None
DeckIdle == disk = {} /\ countries_data = <<>> /\ record_index = 0 /\ deck = EmptyDeck
MatchIdle ==
    /\ country_info = [country |-> <<>>, img_alt |-> <<>>]
    /\ flags_dir_exists = FALSE
    /\ flag_files = <<>>
    /\ matched_path = None
ExtractIdle == html_content = <<>> /\ countries_info = <<>>
NoPage == [raises |-> FALSE, has_infobox |-> FALSE, infobox |-> <<>>,
           has_content |-> FALSE, paragraphs |-> <<>>]
NetworkError == [kind |-> "network_error", status_code |-> 0, page |-> NoPage]
DetailIdle == response = NetworkError /\ details = NoDetails
MainIdle ==
    /\ subdirs = {}
    /\ index_fetch = "pending"
    /\ candidate_index = 0
    /\ events = <<>>
    /\ fetched = <<>>
    /\ package_written = FALSE
    /\ summary = None
    /\ exit_status = -1
DownloadIdle ==
    /\ flag_images = <<>>
    /\ image_index = 0
    /\ success_count = 0
    /\ fail_count = 0
    /\ run = 0
    /\ start_disk = {}

\* ---- SpecSanitize: sanitize_filename on every short file name ----

\* Bound: the longest file name text given to sanitize_filename.
MaxNameLen == 3

\* The characters file names are drawn from: the nine invalid ones, the
\* replacement character itself, and two ordinary characters.
NameChars == InvalidCharSet \cup {"_", "a", " "}

SanitizeInit ==
    /\ pc = "sanitize_call"
    /\ filename \in SeqsUpTo(NameChars, MaxNameLen)
    /\ sanitized = None
    /\ DeckIdle
    /\ MatchIdle
    /\ ExtractIdle
    /\ DetailIdle
    /\ MainIdle
    /\ DownloadIdle

\* The call sanitize_filename(filename) runs and returns.
Sanitize ==
    /\ pc = "sanitize_call"
    /\ sanitized' = sanitize_filename(filename)
    /\ pc' = "sanitize_return"
    /\ UNCHANGED <<filename, deckVars, matchVars, extractVars, detailVars, mainVars, downloadVars>>

SanitizeNext == Sanitize

SpecSanitize == SanitizeInit /\ [][SanitizeNext]_vars

\* ---- SpecDeck: create_anki_deck on every short sequence of joined records ----

\* Bound: the longest countries_data given to create_anki_deck.
MaxRecords == 3

\* Image paths on which os.path.exists can be true: two directories, two base
\* names, one base name in both directories.
DeckPaths == {<<"f", "/", "a">>, <<"g", "/", "a">>, <<"f", "/", "b">>}

\* Joined records: flag_image_path is None (missing key or None), empty, or a path.
DeckRecords ==
    [country : {"Chad", "Peru"},
     flag_image_path : {None, <<>>} \cup DeckPaths,
     description : {<<>>},
     adoption_date : {<<>>}]

DeckInit ==
    /\ pc = "deck_loop"
    /\ disk \in SUBSET DeckPaths
    /\ countries_data \in SeqsUpTo(DeckRecords, MaxRecords)
    /\ record_index = 0
    /\ deck = EmptyDeck
    /\ SanitizeIdle
    /\ MatchIdle
    /\ ExtractIdle
    /\ DetailIdle
    /\ MainIdle
    /\ DownloadIdle

\* One iteration of the loop of create_anki_deck.
DeckIterate ==
    /\ pc = "deck_loop"
    /\ record_index < Len(countries_data)
    /\ deck' = DeckStep(deck, countries_data[record_index + 1], disk)
    /\ record_index' = record_index + 1
    /\ UNCHANGED <<pc, disk, countries_data, sanitizeVars, matchVars, extractVars, detailVars, mainVars, downloadVars>>

\* The loop is exhausted: return deck, media_files, notes_added, notes_skipped.
DeckReturn ==
    /\ pc = "deck_loop"
    /\ record_index = Len(countries_data)
    /\ pc' = "deck_return"
    /\ UNCHANGED <<deckVars, sanitizeVars, matchVars, extractVars, detailVars, mainVars, downloadVars>>

DeckNext == DeckIterate \/ DeckReturn

SpecDeck == DeckInit /\ [][DeckNext]_vars

\* ---- SpecMatch: find_flag_image_file on candidates and directory listings ----

\* Bound: the number of pieces a country name is put together from.
MaxNamePieces == 3

\* Bound: the number of files in the flags directory.
MaxFlagFiles == 2

\* The pieces of country names: a space, two words longer than 3 characters
\* (one with a capital) and a word of exactly 3 characters.
NamePieces == {<<" ">>, <<"C", "h", "a", "d">>, <<"p", "e", "r", "u">>, <<"a", "n", "d">>}

RECURSIVE Concat(_)
Concat(pieces) == IF pieces = <<>> THEN <<>> ELSE Head(pieces) \o Concat(Tail(pieces))

CountryNames == {Concat(ps) : ps \in SeqsUpTo(NamePieces, MaxNamePieces)}

\* The alt texts of candidates: none, one that names a file, one with a space.
AltTexts == {<<>>, <<"x">>, <<"C", "h", "a", "d", " ", "p", "e", "r", "u">>}

\* The file names of the flags directory.
FlagFileNames ==
    {<<"1", "_", "C", "h", "a", "d">>,
     <<"2", "_", "P", "E", "R", "U">>,
     <<"3", "_", "c", "h", "a", "d", "_", "p", "e", "r", "u">>,
     <<"4", "_", "a", "n", "d">>,
     <<"5", "_", "x">>}

\* os.listdir: the files of the directory, each once, in any order.
Listings ==
    {l \in SeqsUpTo(FlagFileNames, MaxFlagFiles) :
        \A i, j \in 1..Len(l) : i # j => l[i] # l[j]}

MatchInit ==
    /\ pc = "match_call"
    /\ country_info \in [country : CountryNames, img_alt : AltTexts]
    /\ flags_dir_exists \in BOOLEAN
    /\ flag_files \in (IF flags_dir_exists THEN Listings ELSE {<<>>})
    /\ matched_path = None
    /\ SanitizeIdle
    /\ DeckIdle
    /\ ExtractIdle
    /\ DetailIdle
    /\ MainIdle
    /\ DownloadIdle

\* The call find_flag_image_file(country_info, FLAGS_DIR) runs and returns.
Match ==
    /\ pc = "match_call"
    /\ matched_path' =
          find_flag_image_file(country_info, FLAGS_DIR, flags_dir_exists, flag_files)
    /\ pc' = "match_return"
    /\ UNCHANGED <<country_info, flags_dir_exists, flag_files, sanitizeVars, deckVars,
                   extractVars, detailVars, mainVars, downloadVars>>

MatchNext == Match

SpecMatch == MatchInit /\ [][MatchNext]_vars

\* ---- SpecExtract: extract_country_flag_info on index-page markup ----

\* Bound: the number of cells in a row.
MaxCells == 3

\* Bound: the number of rows in a document of several tables (a table without
\* rows counts as one).
MaxDocRows == 3

PlainSrc == <<"a">>
MarkedSrc == FlagMarker \o <<"X">>

Img(src, width, alt) == [src |-> src, width |-> width, alt |-> alt]

\* The img elements a cell can hold.
BigImg == Img(PlainSrc, <<"1", "5", "0">>, <<"A">>)
Width100Img == Img(PlainSrc, <<"1", "0", "0">>, <<"B">>)
Width99Img == Img(PlainSrc, <<"9", "9">>, <<"C">>)
SmallMarkedImg == Img(MarkedSrc, <<"2", "0">>, None)
NoWidthMarkedImg == Img(MarkedSrc, None, <<"D">>)
PxWidthMarkedImg == Img(MarkedSrc, <<"1", "5", "0", "p", "x">>, <<"E">>)
PxWidthPlainImg == Img(PlainSrc, <<"1", "5", "0", "p", "x">>, <<"F">>)
NoSrcBigImg == Img(None, <<"1", "5", "0">>, <<"G">>)
EmptySrcBigImg == Img(<<>>, <<"1", "5", "0">>, <<"H">>)

Chad == <<"C", "h", "a", "d">>
Peru == <<"P", "e", "r", "u">>

Cell(imgs, links) == [imgs |-> imgs, links |-> links]

\* Cells: with images only, with links only, with both.
ExtractCells ==
    {Cell(<<i>>, <<>>) : i \in {BigImg, Width100Img, Width99Img, SmallMarkedImg,
                                NoWidthMarkedImg, PxWidthMarkedImg, PxWidthPlainImg,
                                NoSrcBigImg, EmptySrcBigImg}}
    \cup {Cell(<<Width99Img, BigImg>>, <<>>)}
    \cup {Cell(<<>>, l) : l \in {<<>>, <<Chad>>, <<Chad, Peru>>,
                                 << <<"f", "l", "a", "g">>, <<" ", "P", "e", "r", "u", " ">> >>,
                                 << <<"E", "d", "i", "t">>, <<"a", "b", "c", " ">> >>}}
    \cup {Cell(<<BigImg>>, <<Peru>>), Cell(<<SmallMarkedImg>>, <<Chad>>)}

\* Rows of up to n cells.
ExtractRows(n) == SeqsUpTo(ExtractCells, n)

\* Rows of the documents of several tables.
SampleRows ==
    {<<Cell(<<BigImg>>, <<>>), Cell(<<>>, <<Chad>>)>>,
     <<Cell(<<>>, <<Peru, Chad>>), Cell(<<PxWidthMarkedImg>>, <<>>), Cell(<<>>, <<Chad>>)>>,
     <<Cell(<<SmallMarkedImg>>, <<Chad>>), Cell(<<>>, <<>>)>>,
     <<Cell(<<BigImg>>, <<Peru>>)>>}

Table(wikitable, rows) == [wikitable |-> wikitable, rows |-> rows]

\* Tables of n sample rows.
TablesOfRows(n) == {Table(w, rs) : w \in BOOLEAN, rs \in [1..n -> SampleRows]}

\* Documents whose tables hold n rows in all.
RECURSIVE DocsOfRows(_)
DocsOfRows(n) ==
    IF n = 0 THEN {<<>>}
    ELSE UNION {{<<t>> \o d : t \in TablesOfRows(k) \cup (IF k = 1 THEN TablesOfRows(0) ELSE {}),
                              d \in DocsOfRows(n - k)} : k \in 1..n}

\* Index pages: one wikitable of one row, for every row of up to maxCells
\* cells; and several tables of up to maxRows sample rows in all.
Documents(maxCells, maxRows) ==
    {<<Table(TRUE, <<r>>)>> : r \in ExtractRows(maxCells)}
    \cup UNION {DocsOfRows(n) : n \in 0..maxRows}

ExtractInit ==
    /\ pc = "extract_call"
    /\ html_content \in Documents(MaxCells, MaxDocRows)
    /\ countries_info = <<>>
    /\ SanitizeIdle
    /\ DeckIdle
    /\ MatchIdle
    /\ DetailIdle
    /\ MainIdle
    /\ DownloadIdle

\* The call extract_country_flag_info(html_content) runs and returns.
Extract ==
    /\ pc = "extract_call"
    /\ countries_info' = extract_country_flag_info(html_content)
    /\ pc' = "extract_return"
    /\ UNCHANGED <<html_content, sanitizeVars, deckVars, matchVars, detailVars, mainVars, downloadVars>>

ExtractNext == Extract

SpecExtract == ExtractInit /\ [][ExtractNext]_vars

\* ---- SpecDetails: get_flag_details on responses ----

\* Bound: how far below and above the thresholds 50, 300 and 500 the lengths
\* of the paragraphs and the places of the sentence ends go.
Slack == 1

Near(threshold) == (threshold - Slack)..(threshold + Slack)

\* A text of n characters c.
Fill(c, n) == [i \in 1..n |-> c]

\* A paragraph of n characters without a sentence end.
Plain(n) == Fill("x", n)

\* A paragraph of n characters whose only '. ' has its period at index at.
WithSentence(at, n) == Fill("x", at - 1) \o <<".", " ">> \o Fill("y", n - at - 1)

\* Paragraphs that are the whole description: lengths around every threshold,
\* with no sentence end or with one at the start, in the middle or around the
\* cut at 500.
SoleParagraphs ==
    {Plain(n) : n \in {0} \cup Near(50) \cup Near(300) \cup Near(MAX_DESCRIPTION_LENGTH)}
    \cup {WithSentence(at, n) :
            at \in {1, 250} \cup Near(MAX_DESCRIPTION_LENGTH - 1),
            n \in Near(MAX_DESCRIPTION_LENGTH + 2) \cup {600}}
    \cup {<<" ">> \o Plain(60) \o <<" ", " ", "[", "1", "]", " ">> \o Plain(60) \o <<" ">>,
          Coordinates \o Plain(60),
          <<"[">> \o Plain(60) \o <<"]">>}

\* Paragraphs of pages with two paragraphs.
PairedParagraphs ==
    {Plain(n) : n \in {0, 60} \cup Near(250) \cup Near(300)}
    \cup {WithSentence(100, 250)}

\* The paragraphs of pages with three paragraphs or six: three accepted ones
\* (short, or reaching 300 characters with the third), a long first one,
\* accepted ones among rejected ones, and a sixth after five rejected ones or
\* after one accepted one.
ManyParagraphs ==
    {<<Plain(60), Plain(60), Plain(60)>>,
     <<Plain(100), Plain(100), Plain(100)>>,
     <<Plain(301), Plain(60), Plain(60)>>,
     <<Plain(60), Plain(250), Plain(60)>>,
     <<Plain(0), Plain(60), Coordinates \o Plain(60), Plain(60), Plain(60), Plain(60)>>,
     <<Plain(0), Plain(50), Plain(0), Coordinates \o Plain(60), Plain(0), Plain(60)>>,
     <<Plain(60), Plain(0), Plain(0), Plain(0), Plain(0), Plain(60)>>}

\* The infoboxes of pages: none, one without an adoption row, one with.
Row(th, td) == [th |-> th, td |-> td]

Infoboxes ==
    {<<>>,
     <<Row(<<"U", "s", "e">>, <<"f", "l", "a", "g">>), Row(None, <<"x">>)>>,
     <<Row(<<"A", "d", "o", "p", "t", "e", "d">>, None),
       Row(<<" ", "D", "e", "s", "i", "g", "n">>, <<" ", "1", "9", "5", "9", "[", "2", "]", " ">>)>>}

Page(raises, has_infobox, infobox, has_content, paragraphs) ==
    [raises |-> raises, has_infobox |-> has_infobox, infobox |-> infobox,
     has_content |-> has_content, paragraphs |-> paragraphs]

\* Pages with one paragraph, two, three or six, with each infobox; pages without content
\* block or without infobox; a page whose parse raises.
Pages ==
    {Page(FALSE, TRUE, i, TRUE, ps) :
        i \in Infoboxes,
        ps \in {<<p>> : p \in SoleParagraphs} \cup [1..2 -> PairedParagraphs]
               \cup ManyParagraphs}
    \cup {Page(FALSE, FALSE, <<>>, FALSE, <<>>),
          Page(FALSE, FALSE, <<>>, TRUE, <<>>),
          Page(TRUE, FALSE, <<>>, FALSE, <<>>)}

Responses ==
    {NetworkError}
    \cup {[kind |-> "response", status_code |-> 200, page |-> pg] : pg \in Pages}
    \cup {[kind |-> "response", status_code |-> 404, page |-> NoPage]}

DetailInit ==
    /\ pc = "details_call"
    /\ response \in Responses
    /\ details = NoDetails
    /\ SanitizeIdle
    /\ DeckIdle
    /\ MatchIdle
    /\ ExtractIdle
    /\ MainIdle
    /\ DownloadIdle

\* The call get_flag_details(country_name) runs and returns.
Details ==
    /\ pc = "details_call"
    /\ details' = get_flag_details(response).value
    /\ pc' = IF get_flag_details(response).raised THEN "details_raised" ELSE "details_return"
    /\ UNCHANGED <<response, sanitizeVars, deckVars, matchVars, extractVars, mainVars, downloadVars>>

DetailNext == Details

SpecDetails == DetailInit /\ [][DetailNext]_vars

\* ---- SpecMain: one run of create_anki_deck.main ----

MaxMainRows == 2

Mali == <<"M", "a", "l", "i">>
NoAltImg == Img(PlainSrc, <<"1", "5", "0">>, None)

\* Index rows: three that yield a candidate (the last with no alt text and a
\* name no stored file holds) and one whose only link is a stop word.
MainRows ==
    {<<Cell(<<BigImg>>, <<>>), Cell(<<>>, <<Chad>>)>>,
     <<Cell(<<>>, <<Peru>>), Cell(<<PxWidthMarkedImg>>, <<>>)>>,
     <<Cell(<<NoAltImg>>, <<>>), Cell(<<>>, <<Mali>>)>>,
     <<Cell(<<BigImg>>, <<>>), Cell(<<>>, <<<<"f", "l", "a", "g">>>>)>>}

\* Index pages: one wikitable of up to MaxMainRows rows.
MainDocuments == {<<Table(TRUE, rows)>> : rows \in SeqsUpTo(MainRows, MaxMainRows)}

Store(dir_exists, listing, dirs) == [exists |-> dir_exists, listing |-> listing, dirs |-> dirs]

\* The flags directory: missing, empty, holding only a subdirectory, holding
\* files, holding files and a subdirectory.
MainStores ==
    {Store(FALSE, <<>>, {}),
     Store(TRUE, <<>>, {}),
     Store(TRUE, <<<<"1", "_", "C", "h", "a", "d">>>>, {<<"1", "_", "C", "h", "a", "d">>}),
     Store(TRUE, <<<<"1", "_", "C", "h", "a", "d">>>>, {}),
     Store(TRUE, <<<<"2", "_", "P", "E", "R", "U">>, <<"1", "_", "C", "h", "a", "d">>>>, {}),
     Store(TRUE, <<<<"1", "_", "C", "h", "a", "d">>, <<"5", "_", "x">>>>, {<<"5", "_", "x">>})}

\* Detail responses: a network error, a 404, a 200 page whose parse raises, a
\* 200 page with an adoption row in its infobox and one paragraph, too short
\* to be accepted.
MainResponses ==
    {NetworkError,
     [kind |-> "response", status_code |-> 404, page |-> NoPage],
     [kind |-> "response", status_code |-> 200, page |-> Page(TRUE, FALSE, <<>>, FALSE, <<>>)],
     [kind |-> "response", status_code |-> 200,
      page |-> Page(FALSE, TRUE,
                    <<Row(<<"A", "d", "o", "p", "t", "e", "d">>, <<"1", "9", "5", "9">>)>>,
                    TRUE, <<Plain(50)>>)]}

Event(ev, i) == [ev |-> ev, i |-> i]

MainInit ==
    /\ pc = "main_check_store"
    /\ \E st \in MainStores :
          /\ flags_dir_exists = st.exists
          /\ flag_files = st.listing
          /\ subdirs = st.dirs
          /\ disk = PathsOf(FLAGS_DIR, st.listing)
    /\ countries_data = <<>> /\ record_index = 0 /\ deck = EmptyDeck
    /\ country_info = [country |-> <<>>, img_alt |-> <<>>]
    /\ matched_path = None
    /\ index_fetch = "pending"
    /\ candidate_index = 0
    /\ events = <<>>
    /\ fetched = <<>>
    /\ package_written = FALSE
    /\ summary = None
    /\ exit_status = -1
    /\ SanitizeIdle
    /\ ExtractIdle
    /\ DetailIdle
    /\ DownloadIdle

\* sys.exit(1)
MainExit ==
    /\ pc' = "main_exited"
    /\ exit_status' = 1

\* Lines 298-301: the flags directory must exist.
MainCheckStore ==
    /\ pc = "main_check_store"
    /\ IF ~flags_dir_exists
       THEN MainExit
       ELSE pc' = "main_count_flags" /\ UNCHANGED exit_status
    /\ UNCHANGED <<sanitizeVars, deckVars, matchVars, extractVars, detailVars,
                   subdirs, index_fetch, candidate_index, events, fetched, package_written, summary, downloadVars>>

\* Lines 304-310: the directory must hold at least one file.
MainCountFlags ==
    /\ pc = "main_count_flags"
    /\ IF Len(FilesOf(flag_files, subdirs)) = 0
       THEN MainExit
       ELSE pc' = "main_fetch_index" /\ UNCHANGED exit_status
    /\ UNCHANGED <<sanitizeVars, deckVars, matchVars, extractVars, detailVars,
                   subdirs, index_fetch, candidate_index, events, fetched, package_written, summary, downloadVars>>

\* Lines 314-318: get_wikipedia_page raises.
MainFetchIndexFails ==
    /\ pc = "main_fetch_index"
    /\ index_fetch' = "failed"
    /\ MainExit
    /\ UNCHANGED <<sanitizeVars, deckVars, matchVars, extractVars, detailVars,
                   subdirs, candidate_index, events, fetched, package_written, summary, downloadVars>>

\* Lines 314-315: get_wikipedia_page returns the index page.
MainFetchIndex ==
    /\ pc = "main_fetch_index"
    /\ index_fetch' = "ok"
    /\ html_content' \in MainDocuments
    /\ pc' = "main_extract"
    /\ UNCHANGED <<sanitizeVars, deckVars, matchVars, countries_info, detailVars,
                   subdirs, candidate_index, events, fetched, package_written, summary, exit_status, downloadVars>>

\* Lines 321-327: extraction; no candidate ends the run.
MainExtract ==
    /\ pc = "main_extract"
    /\ countries_info' = extract_country_flag_info(html_content)
    /\ IF extract_country_flag_info(html_content) = <<>>
       THEN MainExit
       ELSE pc' = "main_loop" /\ UNCHANGED exit_status
    /\ UNCHANGED <<sanitizeVars, deckVars, matchVars, html_content, detailVars,
                   subdirs, index_fetch, candidate_index, events, fetched, package_written, summary, downloadVars>>

\* Lines 333-356, one iteration of the for loop whose candidate has a stored
\* image: the detail fetch, the joined record, the delay.  An exception that
\* get_flag_details lets through ends the run with a traceback.
MainMatched ==
    /\ pc = "main_loop"
    /\ candidate_index < Len(countries_info)
    /\ LET i == candidate_index + 1
           flag_image_path == find_flag_image_file(countries_info[i], FLAGS_DIR,
                                                   flags_dir_exists, flag_files)
       IN /\ flag_image_path # None
          /\ country_info' = countries_info[i]
          /\ matched_path' = flag_image_path
          /\ candidate_index' = i
          /\ \E resp \in MainResponses :
                LET outcome == get_flag_details(resp) IN
                /\ response' = resp
                /\ fetched' = Append(fetched, resp)
                /\ IF outcome.raised
                   THEN /\ pc' = "main_crashed"
                        /\ exit_status' = 1
                        /\ events' = events \o <<Event("match", i), Event("fetch", i)>>
                        /\ UNCHANGED <<details, countries_data>>
                   ELSE /\ pc' = "main_loop"
                        /\ details' = outcome.value
                        /\ countries_data' =
                              Append(countries_data,
                                     JoinedRecord(countries_info[i].country,
                                                  flag_image_path, outcome.value))
                        /\ events' = events \o <<Event("match", i), Event("fetch", i),
                                                 Event("sleep", i)>>
                        /\ UNCHANGED exit_status
    /\ UNCHANGED <<sanitizeVars, disk, record_index, deck, flags_dir_exists, flag_files,
                   extractVars, subdirs, index_fetch, package_written, summary, downloadVars>>

\* Mutant: the loop body without `if flag_image_path:`, so the unmatched
\* candidate is fetched and joined like a matched one.
MainUnmatchedJoins ==
    /\ pc = "main_loop"
    /\ candidate_index < Len(countries_info)
    /\ LET i == candidate_index + 1 IN
          /\ find_flag_image_file(countries_info[i], FLAGS_DIR,
                                  flags_dir_exists, flag_files) = None
          /\ country_info' = countries_info[i]
          /\ matched_path' = None
          /\ candidate_index' = i
          /\ \E resp \in MainResponses :
                /\ response' = resp
                /\ fetched' = Append(fetched, resp)
                /\ details' = get_flag_details(resp).value
                /\ countries_data' =
                      Append(countries_data,
                             JoinedRecord(countries_info[i].country, None,
                                          get_flag_details(resp).value))
          /\ events' = events \o <<Event("fetch", i), Event("sleep", i)>>
    /\ UNCHANGED <<pc, sanitizeVars, disk, record_index, deck, flags_dir_exists, flag_files,
                   extractVars, subdirs, index_fetch, package_written, summary, exit_status, downloadVars>>

\* Lines 333-340 and 355-356, one iteration whose candidate has no stored
\* image: a warning, nothing else.
MainUnmatched ==
    /\ pc = "main_loop"
    /\ candidate_index < Len(countries_info)
    /\ LET i == candidate_index + 1 IN
          /\ find_flag_image_file(countries_info[i], FLAGS_DIR,
                                  flags_dir_exists, flag_files) = None
          /\ country_info' = countries_info[i]
          /\ matched_path' = None
          /\ candidate_index' = i
          /\ events' = Append(events, Event("warning", i))
    /\ UNCHANGED <<pc, sanitizeVars, deckVars, flags_dir_exists, flag_files, extractVars,
                   detailVars, subdirs, index_fetch, fetched, package_written, summary, exit_status, downloadVars>>

\* Line 362: the loop is over; create_anki_deck(countries_data).
MainCreateDeck ==
    /\ pc = "main_loop"
    /\ candidate_index = Len(countries_info)
    /\ deck' = create_anki_deck(countries_data, disk)
    /\ record_index' = Len(countries_data)
    /\ pc' = "main_write_package"
    /\ UNCHANGED <<sanitizeVars, disk, countries_data, matchVars, extractVars, detailVars,
                   mainVars, downloadVars>>

\* Lines 366-368: the package is written to OUTPUT_FILE.
MainWritePackage ==
    /\ pc = "main_write_package"
    /\ package_written' = TRUE
    /\ pc' = "main_summary"
    /\ UNCHANGED <<sanitizeVars, deckVars, matchVars, extractVars, detailVars,
                   subdirs, index_fetch, candidate_index, events, fetched, summary, exit_status, downloadVars>>

\* Lines 371-380: the summary; main returns and the process ends with status 0.
MainSummary ==
    /\ pc = "main_summary"
    /\ summary' = <<deck.notes_added, deck.notes_skipped>>
    /\ exit_status' = 0
    /\ pc' = "main_done"
    /\ UNCHANGED <<sanitizeVars, deckVars, matchVars, extractVars, detailVars,
                   subdirs, index_fetch, candidate_index, events, fetched, package_written, downloadVars>>

MainNext ==
    \/ MainCheckStore
    \/ MainCountFlags
    \/ MainFetchIndexFails
    \/ MainFetchIndex
    \/ MainExtract
    \/ MainMatched
    \/ MainUnmatched
    \/ MainCreateDeck
    \/ MainWritePackage
    \/ MainSummary

SpecMain == MainInit /\ [][MainNext]_vars

\* The interpreter runs the next statement of main whenever there is one.
SpecMainFair == SpecMain /\ WF_vars(MainNext)

\* ---- SpecDownload: two runs of download_flags.main ----

MaxImages == 2

HostedSrc == <<"/", "/", "w", "/", "A", ".", "s">>
ColonSrc == <<"/", "/", "w", "/", "a", ":", "b", ".", "s">>

\* Images of the index page: one named by its alt text, one by its URL, one
\* accepted for its marker with a blank alt text and no extension, one whose
\* URL segment holds a colon, one too narrow to be taken.
DownloadImgs ==
    {Img(HostedSrc, <<"1", "5", "0">>, <<"a", "/", "b">>),
     Img(HostedSrc, <<"1", "5", "0">>, None),
     Img(<<"/">> \o MarkedSrc, <<"1", "5", "0", "p", "x">>, <<" ">>),
     Img(ColonSrc, <<"1", "0", "0">>, <<>>),
     Img(HostedSrc, <<"9", "9">>, <<"B">>)}

\* Index pages: one wikitable with one row of one cell of up to MaxImages images.
DownloadDocuments ==
    {<<Table(TRUE, <<<<Cell(imgs, <<>>)>>>>)>> : imgs \in SeqsUpTo(DownloadImgs, MaxImages)}

\* The output directory before the first run: absent, empty, or holding the
\* file of an earlier run.
DownloadStores ==
    {Store(FALSE, <<>>, {}),
     Store(TRUE, <<>>, {}),
     Store(TRUE, <<<<"0", "0", "1", "_", "A", ".", "s">>>>, {})}

\* What requests.get, resize_image and the write do for an image that is not
\* stored yet: the fetch or the resize raises; the file is written; the file
\* is opened and the write raises.
DownloadOutcomes == {"fetch_failed", "saved", "write_failed"}

DownloadInit ==
    /\ pc = "download_create_dir"
    /\ run = 1
    /\ \E st \in DownloadStores :
          /\ flags_dir_exists = st.exists
          /\ disk = PathsOf(OUTPUT_DIR, st.listing)
          /\ start_disk = PathsOf(OUTPUT_DIR, st.listing)
    /\ flag_images = <<>> /\ image_index = 0 /\ success_count = 0 /\ fail_count = 0
    /\ flag_files = <<>> /\ matched_path = None
    /\ country_info = [country |-> <<>>, img_alt |-> <<>>]
    /\ countries_data = <<>> /\ record_index = 0 /\ deck = EmptyDeck
    /\ SanitizeIdle
    /\ ExtractIdle
    /\ DetailIdle
    /\ MainIdle

\* Lines 190 and 24-28: create_output_directory.
DownloadCreateDir ==
    /\ pc = "download_create_dir"
    /\ flags_dir_exists' = TRUE
    /\ pc' = "download_fetch_index"
    /\ UNCHANGED <<sanitizeVars, deckVars, country_info, flag_files, matched_path,
                   extractVars, detailVars, mainVars, downloadVars>>

\* Lines 193-197: get_wikipedia_page raises; sys.exit(1).
DownloadFetchIndexFails ==
    /\ pc = "download_fetch_index"
    /\ index_fetch' = "failed"
    /\ exit_status' = 1
    /\ pc' = "download_exited"
    /\ UNCHANGED <<sanitizeVars, deckVars, matchVars, extractVars, detailVars, subdirs,
                   candidate_index, events, fetched, package_written, summary, downloadVars>>

\* Lines 193-194: get_wikipedia_page returns the index page, the same page in
\* the second run as in the first.
DownloadFetchIndex ==
    /\ pc = "download_fetch_index"
    /\ index_fetch' = "ok"
    /\ IF run = 1 THEN html_content' \in DownloadDocuments ELSE html_content' = html_content
    /\ pc' = "download_extract"
    /\ UNCHANGED <<sanitizeVars, deckVars, matchVars, countries_info, detailVars, subdirs,
                   candidate_index, events, fetched, package_written, summary, exit_status,
                   downloadVars>>

\* Lines 200-206: extraction; no image ends the run.
DownloadExtract ==
    /\ pc = "download_extract"
    /\ flag_images' = extract_flag_images(html_content)
    /\ IF extract_flag_images(html_content) = <<>>
       THEN pc' = "download_exited" /\ exit_status' = 1
       ELSE pc' = "download_loop" /\ UNCHANGED exit_status
    /\ UNCHANGED <<sanitizeVars, deckVars, matchVars, extractVars, detailVars, subdirs,
                   index_fetch, candidate_index, events, fetched, package_written, summary,
                   image_index, success_count, fail_count, run, start_disk>>

\* Mutant: download_image without the os.path.exists test; the stored image
\* is fetched and written again.
DownloadSkipRefetches ==
    /\ pc = "download_loop"
    /\ image_index < Len(flag_images)
    /\ LET index == image_index + 1 IN
          /\ TargetPath(flag_images[index], index) \in disk
          /\ image_index' = index
          /\ success_count' = success_count + 1
          /\ events' = events \o <<Event("fetch", index), Event("write", index),
                                   Event("sleep", index)>>
    /\ UNCHANGED <<pc, sanitizeVars, deckVars, matchVars, extractVars, detailVars, subdirs,
                   index_fetch, candidate_index, fetched, package_written, summary,
                   exit_status, flag_images, fail_count, run, start_disk>>

\* Lines 213-220 with 162-165, one iteration of the for loop whose target
\* file exists: download_image returns True at once; then the delay.
DownloadSkip ==
    /\ pc = "download_loop"
    /\ image_index < Len(flag_images)
    /\ LET index == image_index + 1 IN
          /\ TargetPath(flag_images[index], index) \in disk
          /\ image_index' = index
          /\ success_count' = success_count + 1
          /\ events' = events \o <<Event("exists", index), Event("sleep", index)>>
    /\ UNCHANGED <<pc, sanitizeVars, deckVars, matchVars, extractVars, detailVars, subdirs,
                   index_fetch, candidate_index, fetched, package_written, summary,
                   exit_status, flag_images, fail_count, run, start_disk>>

\* Mutant: the delay is skipped when download_image returns False.
DownloadFetchNoDelayOnFailure ==
    /\ pc = "download_loop"
    /\ image_index < Len(flag_images)
    /\ LET index == image_index + 1
           filepath == TargetPath(flag_images[index], index)
       IN /\ filepath \notin disk
          /\ image_index' = index
          /\ \E outcome \in DownloadOutcomes :
                /\ disk' = IF outcome = "fetch_failed" THEN disk ELSE disk \cup {filepath}
                /\ success_count' = IF outcome = "saved" THEN success_count + 1
                                    ELSE success_count
                /\ fail_count' = IF outcome = "saved" THEN fail_count ELSE fail_count + 1
                /\ events' = events
                      \o <<Event("exists", index), Event("fetch", index)>>
                      \o (IF outcome = "fetch_failed" THEN <<>> ELSE <<Event("write", index)>>)
                      \o (IF outcome = "saved" THEN <<Event("sleep", index)>> ELSE <<>>)
    /\ UNCHANGED <<pc, sanitizeVars, countries_data, record_index, deck, matchVars,
                   extractVars, detailVars, subdirs, index_fetch, candidate_index, fetched,
                   package_written, summary, exit_status, flag_images, run, start_disk>>


\* Lines 213-220 with 162-182, one iteration whose target file does not
\* exist: the existence test, the fetch, the write unless the fetch or the
\* resize raised, True or False; then the delay.
DownloadFetch ==
    /\ pc = "download_loop"
    /\ image_index < Len(flag_images)
    /\ LET index == image_index + 1
           filepath == TargetPath(flag_images[index], index)
       IN /\ filepath \notin disk
          /\ image_index' = index
          /\ \E outcome \in DownloadOutcomes :
                /\ disk' = IF outcome = "fetch_failed" THEN disk ELSE disk \cup {filepath}
                /\ success_count' = IF outcome = "saved" THEN success_count + 1
                                    ELSE success_count
                /\ fail_count' = IF outcome = "saved" THEN fail_count ELSE fail_count + 1
                /\ events' = events
                      \o <<Event("exists", index), Event("fetch", index)>>
                      \o (IF outcome = "fetch_failed" THEN <<>> ELSE <<Event("write", index)>>)
                      \o <<Event("sleep", index)>>
    /\ UNCHANGED <<pc, sanitizeVars, countries_data, record_index, deck, matchVars,
                   extractVars, detailVars, subdirs, index_fetch, candidate_index, fetched,
                   package_written, summary, exit_status, flag_images, run, start_disk>>

\* Lines 222-229: the summary; main returns and the process ends with status 0.
DownloadSummary ==
    /\ pc = "download_loop"
    /\ image_index = Len(flag_images)
    /\ summary' = <<success_count, fail_count>>
    /\ exit_status' = 0
    /\ pc' = "download_done"
    /\ UNCHANGED <<sanitizeVars, deckVars, matchVars, extractVars, detailVars, subdirs,
                   index_fetch, candidate_index, events, fetched, package_written,
                   downloadVars>>

\* The stage is started a second time on the directory the first run left.
DownloadRerun ==
    /\ pc \in {"download_done", "download_exited"}
    /\ run = 1
    /\ run' = 2
    /\ start_disk' = disk
    /\ pc' = "download_create_dir"
    /\ flag_images' = <<>> /\ image_index' = 0 /\ success_count' = 0 /\ fail_count' = 0
    /\ events' = <<>>
    /\ summary' = None
    /\ exit_status' = -1
    /\ index_fetch' = "pending"
    /\ UNCHANGED <<sanitizeVars, deckVars, matchVars, extractVars, detailVars, subdirs,
                   candidate_index, fetched, package_written>>

DownloadNext ==
    \/ DownloadCreateDir
    \/ DownloadFetchIndexFails
    \/ DownloadFetchIndex
    \/ DownloadExtract
    \/ DownloadSkip
    \/ DownloadFetch
    \/ DownloadSummary
    \/ DownloadRerun

SpecDownload == DownloadInit /\ [][DownloadNext]_vars

(***************************************************************************)
(* 4. Properties                                                           *)
(***************************************************************************)

\* C1: the text sanitize_filename returns has the length of its argument,
\* holds none of the nine invalid characters, and at each position holds '_'
\* where the argument held an invalid character and the argument's own
\* character everywhere else.
C1_SanitizePositionwise ==
    pc = "sanitize_return" =>
        /\ Len(sanitized) = Len(filename)
        /\ \A i \in 1..Len(sanitized) :
              /\ sanitized[i] \notin InvalidCharSet
              /\ sanitized[i] = IF filename[i] \in InvalidCharSet THEN "_" ELSE filename[i]

\* C1 witness: a three-character name with an invalid character between two
\* ordinary ones has been sanitized.
C1_Witness ==
    /\ pc = "sanitize_return"
    /\ filename = <<"a", ":", "a">>
    /\ sanitized = <<"a", "_", "a">>

\* A joined record create_anki_deck includes: its image path is present,
\* non-empty and exists on the filesystem.
HasExistingImage(r) ==
    /\ r.flag_image_path # None
    /\ r.flag_image_path # <<>>
    /\ r.flag_image_path \in disk

\* b is the base file name of path: the part of path after its last '/'.
IsBaseNameOf(b, path) ==
    \E k \in 0..Len(path) :
        /\ b = SubSeq(path, k + 1, Len(path))
        /\ \A i \in 1..Len(b) : b[i] # "/"
        /\ k = 0 \/ path[k] = "/"

\* The records consumed so far, and those of them with an existing image.
ConsumedRecords == SubSeq(countries_data, 1, record_index)
IncludedRecords == SelectSeq(ConsumedRecords, HasExistingImage)

\* C2: after any number of iterations, and so at the return over the whole
\* input, count_added + count_skipped is the number of records consumed, the
\* deck holds count_added cards and the media list count_added entries, the
\* k-th card's image field is the img tag of the base file name of the k-th
\* included record's image path and the k-th media entry is that full path;
\* when every record has an existing image path, count_skipped is 0.
C2_DeckCountsAndCards ==
    /\ pc = "deck_return" => record_index = Len(countries_data)
    /\ deck.notes_added + deck.notes_skipped = record_index
    /\ Len(deck.notes) = deck.notes_added
    /\ Len(deck.media_files) = deck.notes_added
    /\ Len(IncludedRecords) = deck.notes_added
    /\ \A k \in 1..Len(IncludedRecords) :
          /\ deck.media_files[k] = IncludedRecords[k].flag_image_path
          /\ \E b \in SeqsUpTo({"f", "g", "a", "b", "/"}, 3) :
                /\ IsBaseNameOf(b, IncludedRecords[k].flag_image_path)
                /\ deck.notes[k][2] = <<"<", "i", "m", "g", " ", "s", "r", "c", "=", "\"">>
                                        \o b \o <<"\"", ">">>
    /\ (\A i \in 1..record_index : HasExistingImage(countries_data[i]))
          => deck.notes_skipped = 0

\* C2 witness: three records were consumed, the first and the last included
\* (same base name in two directories), the second skipped.
C2_Witness ==
    /\ pc = "deck_return"
    /\ Len(countries_data) = 3
    /\ deck.notes_added = 2
    /\ deck.notes_skipped = 1
    /\ deck.media_files = <<(<<"f", "/", "a">>), (<<"g", "/", "a">>)>>

\* The sequence s without its i-th element.
RemoveAt(s, i) == SubSeq(s, 1, i - 1) \o SubSeq(s, i + 1, Len(s))

\* C3: at the return, for every record whose image path is absent, empty or
\* not on the filesystem: the cards, the media list and count_added are those
\* create_anki_deck produces for the input without that record, and
\* count_skipped is one more.
C3_SkippedRecordLeavesNoTrace ==
    pc = "deck_return" =>
        \A i \in 1..Len(countries_data) :
            ~HasExistingImage(countries_data[i]) =>
                LET without == create_anki_deck(RemoveAt(countries_data, i), disk) IN
                /\ deck.notes = without.notes
                /\ deck.media_files = without.media_files
                /\ deck.notes_added = without.notes_added
                /\ deck.notes_skipped = without.notes_skipped + 1

\* C3 witness: a record whose image path does not exist on the filesystem
\* stood between two included records.
C3_Witness ==
    /\ pc = "deck_return"
    /\ Len(countries_data) = 3
    /\ HasExistingImage(countries_data[1])
    /\ countries_data[2].flag_image_path \in DeckPaths \ disk
    /\ HasExistingImage(countries_data[3])
    /\ deck.notes_added = 2
    /\ deck.notes_skipped = 1

\* sub occurs in text when letter case is ignored.
ContainsIgnoringCase(sub, text) ==
    \E at \in 0..(Len(text) - Len(sub)) :
        \A k \in 1..Len(sub) : LowerChar(sub[k]) = LowerChar(text[at + k])

\* The normalized form of a name: lowercased, spaces replaced by underscores.
NormalizedForm(text) ==
    [i \in 1..Len(text) |-> IF text[i] = " " THEN "_" ELSE LowerChar(text[i])]

\* text[i..j] is a whitespace-delimited word of text.
IsWordAt(text, i, j) ==
    /\ 1 <= i /\ i <= j /\ j <= Len(text)
    /\ \A k \in i..j : text[k] # " "
    /\ i = 1 \/ text[i - 1] = " "
    /\ j = Len(text) \/ text[j + 1] = " "

\* Some word of text longer than 3 characters occurs in file.
SomeLongWordIn(text, file) ==
    \E i, j \in 1..Len(text) :
        /\ IsWordAt(text, i, j)
        /\ j - i + 1 > 3
        /\ ContainsIgnoringCase(SubSeq(text, i, j), file)

\* C4: when find_flag_image_file has returned: if the normalized country name
\* occurs (case ignored) in a listed file name, the result is the directory
\* joined with a listed file name; if the directory is missing, or no listed
\* file name holds the normalized name, the normalized non-empty alt text or a
\* word of the name longer than 3 characters, the result is None.
C4_MatchPresentOrAbsent ==
    pc = "match_return" =>
        /\ (\E k \in 1..Len(flag_files) :
                ContainsIgnoringCase(NormalizedForm(country_info.country), flag_files[k]))
              => \E k \in 1..Len(flag_files) :
                    matched_path = FLAGS_DIR \o <<"/">> \o flag_files[k]
        /\ (\/ ~flags_dir_exists
            \/ \A k \in 1..Len(flag_files) :
                  /\ ~ContainsIgnoringCase(NormalizedForm(country_info.country), flag_files[k])
                  /\ ~(/\ country_info.img_alt # <<>>
                       /\ ContainsIgnoringCase(NormalizedForm(country_info.img_alt),
                                               flag_files[k]))
                  /\ ~SomeLongWordIn(country_info.country, flag_files[k]))
              => matched_path = None

\* C4 witness: the normalized name "chad_peru" occurs only in the second
\* listed file, and that file's path was returned.
C4_Witness ==
    /\ pc = "match_return"
    /\ country_info.country = <<"C", "h", "a", "d", " ", "p", "e", "r", "u">>
    /\ country_info.img_alt = <<>>
    /\ flag_files = << <<"2", "_", "P", "E", "R", "U">>,
                       <<"3", "_", "c", "h", "a", "d", "_", "p", "e", "r", "u">> >>
    /\ matched_path = FLAGS_DIR \o <<"/">> \o flag_files[2]

\* The rows of the data tables of a document, in document order.
RECURSIVE DataRows(_)
DataRows(doc) ==
    IF doc = <<>> THEN <<>>
    ELSE (IF Head(doc).wikitable THEN Head(doc).rows ELSE <<>>) \o DataRows(Tail(doc))

\* The link texts of a row, in cell order and within a cell in link order.
RECURSIVE LinkTexts(_)
LinkTexts(row) ==
    IF row = <<>> THEN <<>> ELSE Head(row).links \o LinkTexts(Tail(row))

\* The visible text of a link: the raw text without its leading and trailing
\* whitespace.
VisibleText(raw) ==
    LET inked == {i \in 1..Len(raw) : raw[i] # " "} IN
    IF inked = {} THEN <<>>
    ELSE SubSeq(raw, CHOOSE i \in inked : \A j \in inked : i <= j,
                     CHOOSE i \in inked : \A j \in inked : j <= i)

\* A qualifying link text: longer than 3 characters and, case ignored, none
\* of 'flag', 'edit', 'view'.
QualifyingName(text) ==
    /\ Len(text) > 3
    /\ \A w \in StopWords :
          ~(Len(w) = Len(text) /\ \A k \in 1..Len(w) : LowerChar(text[k]) = w[k])

HasQualifyingName(row) ==
    \E k \in 1..Len(LinkTexts(row)) : QualifyingName(VisibleText(LinkTexts(row)[k]))

FirstQualifyingName(row) ==
    LET texts == LinkTexts(row)
        first == CHOOSE k \in 1..Len(texts) :
                    /\ QualifyingName(VisibleText(texts[k]))
                    /\ \A j \in 1..(k - 1) : ~QualifyingName(VisibleText(texts[j]))
    IN  VisibleText(texts[first])

\* The width attribute of img is a decimal integer of at least 100.
WidthAtLeast100(img) ==
    img.width # None /\ int(img.width).ok /\ int(img.width).value >= 100

HasMarker(img) == img.src # None /\ Contains(FlagMarker, img.src)

HasSource(img) == img.src # None /\ img.src # <<>>

\* Section 4.1's qualifying image: some img of some cell of the row has a
\* source and a width of at least 100 or the marker in its source.
HasQualifyingImage(row) ==
    \E c \in 1..Len(row) : \E m \in 1..Len(row[c].imgs) :
        LET img == row[c].imgs[m] IN
        HasSource(img) /\ (WidthAtLeast100(img) \/ HasMarker(img))

\* The narrower condition: the first img of some cell of the row has a source
\* and a width of at least 100, or a width attribute that is present, is no
\* integer, and the marker in its source.
HasQualifyingFirstImage(row) ==
    \E c \in 1..Len(row) :
        /\ row[c].imgs # <<>>
        /\ LET img == row[c].imgs[1] IN
           /\ HasSource(img)
           /\ \/ WidthAtLeast100(img)
              \/ img.width # None /\ ~int(img.width).ok /\ HasMarker(img)

\* The candidates are, one for one and in order, named by the first qualifying
\* link text of the rows given.
CandidatesNamedBy(rows) ==
    /\ Len(countries_info) = Len(rows)
    /\ \A k \in 1..Len(rows) : countries_info[k].country = FirstQualifyingName(rows[k])

C6_DescriptionAtMost500 ==
    (pc = "details_return" /\ details.present /\ details.description # None)
        => Len(details.description) <= 500

\* The pc values of a run of main that has ended.
MainEnded == pc \in {"main_exited", "main_done", "main_crashed"}

StoreMissing == ~flags_dir_exists
StoreHasNoFile == flags_dir_exists /\ \A i \in 1..Len(flag_files) : flag_files[i] \in subdirs
IndexUnfetchable == index_fetch = "failed"
NoCandidateExtracted ==
    /\ index_fetch = "ok"
    /\ pc # "main_extract"
    /\ countries_info = <<>>

\* What holds of a run that has exited with status 1: nothing was fetched for
\* any candidate, no deck was assembled, no package written, no summary printed.
ExitedEarly ==
    /\ exit_status = 1
    /\ fetched = <<>>
    /\ events = <<>>
    /\ countries_data = <<>>
    /\ deck = EmptyDeck
    /\ ~package_written
    /\ summary = None

\* What holds of a run that has completed: the package was written, the
\* summary printed with the assembler's counts, the status is 0.
Completed ==
    /\ exit_status = 0
    /\ package_written
    /\ candidate_index = Len(countries_info)
    /\ summary = <<deck.notes_added, deck.notes_skipped>>

FailedResponse(resp) ==
    \/ resp.kind = "network_error"
    \/ resp.status_code # 200
    \/ resp.page.raises

\* The candidate numbers of the events of one kind, in order.
EventIndexes(ev) ==
    LET chosen == SelectSeq(events, LAMBDA e : e.ev = ev) IN
    [k \in 1..Len(chosen) |-> chosen[k].i]

\* The candidate numbers the loop has taken up, in order: each iteration
\* logs either a match or a warning.
ProcessedIndexes ==
    LET chosen == SelectSeq(events, LAMBDA e : e.ev \in {"match", "warning"}) IN
    [k \in 1..Len(chosen) |-> chosen[k].i]

\* C9: a detail fetch that ends in a network error, a status other than 200
\* or a parse exception makes get_flag_details return None and never ends
\* the run; the loop still appends the joined record of that candidate, with
\* empty description and adoption date, and takes up the candidates one by
\* one in order, so that a run whose index page yields candidates completes
\* with every candidate processed exactly once.
C9_FailedDetailFetchNotFatal ==
    /\ [](pc # "main_crashed")
    /\ [](\A k \in 1..Len(fetched) :
              FailedResponse(fetched[k]) =>
                  /\ k <= Len(countries_data)
                  /\ countries_data[k].country = countries_info[EventIndexes("fetch")[k]].country
                  /\ countries_data[k].description = <<>>
                  /\ countries_data[k].adoption_date = <<>>)
    /\ []((fetched # <<>> /\ FailedResponse(response)) => details = NoDetails)
    /\ [](ProcessedIndexes = [k \in 1..candidate_index |-> k])
    /\ [](pc = "main_done" => candidate_index = Len(countries_info))
    /\ <>(pc \in {"main_exited", "main_done"})

\* C9 witness: a completed run of two candidates whose detail fetches ended in
\* a network error and in a parse exception, with both joined records built.
C9_Witness ==
    /\ pc = "main_done"
    /\ Len(countries_info) = 2
    /\ Len(fetched) = 2
    /\ fetched[1].kind = "network_error"
    /\ fetched[2].page.raises
    /\ Len(countries_data) = 2
    /\ ProcessedIndexes = <<1, 2>>

\* Whether the matcher returns a path for candidate i of the list.
HasAssetMatch(i) ==
    find_flag_image_file(countries_info[i], FLAGS_DIR, flags_dir_exists, flag_files) # None

\* The candidates taken up so far that have an asset match, in order.
MatchedSoFar == SelectSeq([i \in 1..candidate_index |-> i], HasAssetMatch)

\* C10: at every point of the run the joined records are, in order, those of
\* the candidates taken up so far for which the matcher returned a path, each
\* with the candidate's name and that path; the detail fetches issued are
\* those of the same candidates, so a candidate without a match has neither a
\* record nor a fetch, and one with a match has its record whatever its
\* detail fetch returned.
C10_JoinedRecordsAreMatchedCandidates ==
    /\ Len(countries_data) = Len(MatchedSoFar)
    /\ \A k \in 1..Len(countries_data) :
          /\ countries_data[k].country = countries_info[MatchedSoFar[k]].country
          /\ countries_data[k].flag_image_path =
                find_flag_image_file(countries_info[MatchedSoFar[k]], FLAGS_DIR,
                                     flags_dir_exists, flag_files)
          /\ countries_data[k].flag_image_path # None
    /\ EventIndexes("fetch") = MatchedSoFar
    /\ Len(fetched) = Len(MatchedSoFar)
    /\ EventIndexes("warning") =
          SelectSeq([i \in 1..candidate_index |-> i], LAMBDA i : ~HasAssetMatch(i))

\* C10 witness: both candidates taken up, the first without a match and
\* without a record, the second with a match and a record although its
\* detail record is absent.
C10_Witness ==
    /\ pc = "main_loop"
    /\ candidate_index = 2
    /\ ~HasAssetMatch(1)
    /\ HasAssetMatch(2)
    /\ Len(countries_data) = 1
    /\ countries_data[1].country = countries_info[2].country
    /\ details = NoDetails
    /\ Len(fetched) = 1

\* The number of events of one kind logged in the current run.
EventCount(log, ev) == Len(SelectSeq(log, LAMBDA e : e.ev = ev))

\* Every image of the extracted list has its target file in the given set.
FullyPopulated(files) ==
    \A i \in 1..Len(flag_images) : TargetPath(flag_images[i], i) \in files

\* C7: in download_image the existence test of the target path comes before
\* the fetch; an image whose file exists is not fetched, its file is not
\* written again, and it counts as a success; so a second run on the same
\* index page, started on a directory that holds the file of every image,
\* fetches no image.
C7_DownloadIdempotent ==
    /\ [](pc \in {"download_loop", "download_done"} =>
            \A k \in 1..Len(events) :
                events[k].ev = "fetch" =>
                    /\ k > 1
                    /\ events[k - 1] = Event("exists", events[k].i))
    /\ [][(/\ pc = "download_loop"
           /\ image_index' = image_index + 1
           /\ TargetPath(flag_images[image_index'], image_index') \in disk)
          => (/\ disk' = disk
              /\ EventCount(events', "fetch") = EventCount(events, "fetch")
              /\ EventCount(events', "write") = EventCount(events, "write")
              /\ success_count' = success_count + 1
              /\ fail_count' = fail_count)]_vars
    /\ []((run = 2 /\ pc \in {"download_loop", "download_done"} /\ FullyPopulated(start_disk))
            => /\ EventCount(events, "fetch") = 0
               /\ EventCount(events, "write") = 0
               /\ disk = start_disk
               /\ success_count = image_index
               /\ fail_count = 0)

\* C7 witness: the second run has ended on a directory in which the first
\* run had stored both images of the page; it fetched nothing and counted
\* two successes.
C7_Witness ==
    /\ run = 2
    /\ pc = "download_done"
    /\ Len(flag_images) = 2
    /\ FullyPopulated(start_disk)
    /\ EventCount(events, "fetch") = 0
    /\ EventCount(events, "exists") = 2
    /\ success_count = 2

\* The images the extractor looks at in a row: the first img of each cell
\* that holds one, in cell order.
FirstImages(row) ==
    LET holding == SelectSeq(row, LAMBDA cell : cell.imgs # <<>>) IN
    [k \in 1..Len(holding) |-> holding[k].imgs[1]]

\* Acceptance as claimed: a source, and a width of at least 100 or the marker.
AcceptedAsClaimed(img) == HasSource(img) /\ (WidthAtLeast100(img) \/ HasMarker(img))

\* Acceptance as amended: a source, and a width of at least 100, or a width
\* attribute that is present and is no integer together with the marker.
AcceptedWithWidthRule(img) ==
    /\ HasSource(img)
    /\ \/ WidthAtLeast100(img)
       \/ img.width # None /\ ~int(img.width).ok /\ HasMarker(img)

\* The rows of the page with at least two cells and a qualifying link text.
NamedRows == SelectSeq(DataRows(html_content), LAMBDA r : Len(r) >= 2 /\ HasQualifyingName(r))

\* C11 as claimed: the image of a candidate is the first image of its row, in
\* cell order, that has a source and either a width of at least 100 or the
\* marker 'Flag_of_' in its source, the marker being enough whatever the
\* width; a row has a candidate exactly if it has such an image.
C11_Original_MarkerAloneSuffices ==
    pc = "extract_return" =>
        LET rows == SelectSeq(NamedRows, LAMBDA r :
                        SelectSeq(FirstImages(r), AcceptedAsClaimed) # <<>>)
        IN  /\ Len(countries_info) = Len(rows)
            /\ \A k \in 1..Len(rows) :
                  LET img == Head(SelectSeq(FirstImages(rows[k]), AcceptedAsClaimed)) IN
                  /\ countries_info[k].flag_img_url = img.src
                  /\ countries_info[k].img_alt = Attr(img.alt, <<>>)

\* C11 as amended: the image of a candidate is the first image of its row, in
\* cell order, that has a source and either a width that parses as an integer
\* of at least 100, or a width attribute that is present, does not parse as
\* an integer, and the marker in its source; a missing width is read as 0, so
\* the marker does not count for it, nor for a width below 100.
C11_MarkerOnlyForNonIntegerWidth ==
    pc = "extract_return" =>
        LET rows == SelectSeq(NamedRows, LAMBDA r :
                        SelectSeq(FirstImages(r), AcceptedWithWidthRule) # <<>>)
        IN  /\ Len(countries_info) = Len(rows)
            /\ \A k \in 1..Len(rows) :
                  LET img == Head(SelectSeq(FirstImages(rows[k]), AcceptedWithWidthRule)) IN
                  /\ countries_info[k].flag_img_url = img.src
                  /\ countries_info[k].img_alt = Attr(img.alt, <<>>)

\* C11 witness: in a row whose cells hold, in order, a marked image without
\* width, a marked image 20 wide and a marked image of width '150px', the
\* third image became the candidate's image.
C11_Witness ==
    /\ pc = "extract_return"
    /\ html_content = <<Table(TRUE, <<<<Cell(<<NoWidthMarkedImg>>, <<>>),
                                        Cell(<<SmallMarkedImg>>, <<Chad>>),
                                        Cell(<<PxWidthMarkedImg>>, <<>>)>>>>)>>
    /\ Len(countries_info) = 1
    /\ countries_info[1].img_alt = <<"E">>

\* The positions of the listing whose file name holds the normalized country name.
NameHits ==
    {k \in 1..Len(flag_files) :
        ContainsIgnoringCase(NormalizedForm(country_info.country), flag_files[k])}

\* The positions of the listing whose file name holds the normalized alt text,
\* when there is one.
AltHits ==
    {k \in 1..Len(flag_files) :
        /\ country_info.img_alt # <<>>
        /\ ContainsIgnoringCase(NormalizedForm(country_info.img_alt), flag_files[k])}

\* The path of the first listed file whose position is in hits.
FirstListed(hits) ==
    FLAGS_DIR \o <<"/">> \o flag_files[CHOOSE k \in hits : \A j \in hits : k <= j]

\* C12 as claimed: whenever some listed file name holds the normalized country
\* name, find_flag_image_file returns the first such file in listing order; a
\* file that holds only the alt text is never returned ahead of it.
C12_Original_NameBeforeAlt ==
    (pc = "match_return" /\ flags_dir_exists /\ NameHits # {})
        => matched_path = FirstListed(NameHits)

\* C12 as amended: whenever some listed file name holds the normalized country
\* name or the normalized non-empty alt text, find_flag_image_file returns
\* the first listed file that holds either of them; so the first file that
\* holds the name is returned exactly when no earlier file holds the alt text.
C12_FirstFileMatchingNameOrAlt ==
    (pc = "match_return" /\ flags_dir_exists)
        => /\ (NameHits \cup AltHits # {}) => matched_path = FirstListed(NameHits \cup AltHits)
           /\ (NameHits # {} /\ \A a \in AltHits : \E n \in NameHits : n <= a)
                 => matched_path = FirstListed(NameHits)

\* C12 witness: the first listed file holds only the alt text, the second holds
\* the country name, and the first was returned.
C12_Witness ==
    /\ pc = "match_return"
    /\ flag_files = <<<<"5", "_", "x">>, <<"1", "_", "C", "h", "a", "d">>>>
    /\ country_info.country = <<"C", "h", "a", "d">>
    /\ country_info.img_alt = <<"x">>
    /\ NameHits = {2}
    /\ AltHits = {1}
    /\ matched_path = FLAGS_DIR \o <<"/">> \o flag_files[1]

\* The words of the country name longer than 3 characters, as <<first, last>>
\* positions, that occur in some listed file name.
WordsWithHit ==
    {w \in (1..Len(country_info.country)) \X (1..Len(country_info.country)) :
        /\ IsWordAt(country_info.country, w[1], w[2])
        /\ w[2] - w[1] + 1 > 3
        /\ \E k \in 1..Len(flag_files) :
              ContainsIgnoringCase(SubSeq(country_info.country, w[1], w[2]), flag_files[k])}

\* The positions of the listing whose file name holds some word of the
\* country name longer than 3 characters.
WordHits ==
    {k \in 1..Len(flag_files) : SomeLongWordIn(country_info.country, flag_files[k])}

\* The fallback is reached: the directory exists and no listed file name
\* holds the normalized country name or alt text.
FallbackReached == pc = "match_return" /\ flags_dir_exists /\ NameHits \cup AltHits = {}

\* C13 as claimed: in the fallback the result is the first listed file that
\* holds the earliest word of the country name with any hit; a file holding a
\* later word is returned only if no file holds an earlier word.
C13_Original_EarliestWordFirst ==
    (FallbackReached /\ WordsWithHit # {})
        => LET earliest == CHOOSE w \in WordsWithHit : \A v \in WordsWithHit : w[1] <= v[1]
           IN  matched_path = FirstListed(
                   {k \in 1..Len(flag_files) :
                       ContainsIgnoringCase(
                           SubSeq(country_info.country, earliest[1], earliest[2]),
                           flag_files[k])})

\* C13 as amended: in the fallback the result is the first file in listing
\* order that holds any word of the country name longer than 3 characters,
\* whatever the position of that word in the name, and None when no file
\* holds such a word.
C13_FirstFileWithAnyWord ==
    FallbackReached
        => /\ WordHits # {} => matched_path = FirstListed(WordHits)
           /\ WordHits = {} => matched_path = None

\* C13 witness: for the name 'Chad peru' the first listed file holds only the
\* second word, the second file the first word, and the first file was
\* returned.
C13_Witness ==
    /\ FallbackReached
    /\ country_info.country = <<"C", "h", "a", "d", " ", "p", "e", "r", "u">>
    /\ flag_files = <<<<"2", "_", "P", "E", "R", "U">>, <<"1", "_", "C", "h", "a", "d">>>>
    /\ matched_path = FLAGS_DIR \o <<"/">> \o flag_files[1]

\* The call has returned the record parsed from a page with a content block.
ParsedContent ==
    /\ pc = "details_return"
    /\ response.kind = "response" /\ response.status_code = 200
    /\ ~response.page.raises
    /\ response.page.has_content

\* The description as assembled from the paragraphs, before truncation.
Assembled == JoinDescription(DescriptionParts(Slice(response.page.paragraphs, 5), <<>>))

\* The positions, within the first 500 characters of text, of a period that
\* is followed by a space.
Boundaries(text) == {p \in 1..499 : p < Len(text) /\ text[p] = "." /\ text[p + 1] = " "}

Examined == Slice(response.page.paragraphs, 5)

\* The positions among the examined paragraphs of the accepted ones: trimmed
\* text longer than 50 characters that does not start with 'Coordinates:'.
AcceptedAt ==
    {i \in 1..Len(Examined) :
        /\ Len(Trim(Examined[i])) > 50
        /\ ~startswith(Trim(Examined[i]), Coordinates)}

\* The cleaned text of the examined paragraph at position i.
Cleaned(i) == NormalizeWhitespace(RemoveCitations(Trim(Examined[i])))

\* The position of the n-th accepted paragraph.
AcceptedNth(n) == CHOOSE i \in AcceptedAt : Cardinality({j \in AcceptedAt : j < i}) = n - 1

\* The description the paragraphs give: absent with no accepted paragraph,
\* the first accepted one when it is the only one or exceeds 300 characters,
\* else the first two joined by a space.
CollectedDescription ==
    IF AcceptedAt = {} THEN None
    ELSE IF Cardinality(AcceptedAt) = 1 \/ Len(Cleaned(AcceptedNth(1))) > 300
         THEN Cleaned(AcceptedNth(1))
         ELSE Cleaned(AcceptedNth(1)) \o <<" ">> \o Cleaned(AcceptedNth(2))

\* C15: the description is assembled from the first 5 paragraphs only; the
\* accepted ones (trimmed text over 50 characters, not starting with
\* 'Coordinates:') are collected until 2 are collected or the joined text
\* exceeds 300 characters, so the result holds at most 2 paragraphs, only the
\* first when it alone exceeds 300, and is absent when none is accepted; the
\* returned description is this text, truncated.
C15_DescriptionAssembly ==
    ParsedContent
        => /\ Assembled = CollectedDescription
           /\ details.description = Truncate(CollectedDescription)

\* C15 witness: of six paragraphs three of the first five are accepted and
\* the sixth would be; the description is the first two accepted ones.
C15_Witness ==
    /\ ParsedContent
    /\ Len(response.page.paragraphs) = 6
    /\ Len(Trim(response.page.paragraphs[6])) > 50
    /\ Cardinality(AcceptedAt) = 3
    /\ details.description = Cleaned(AcceptedNth(1)) \o <<" ">> \o Cleaned(AcceptedNth(2))


\* C16: the description and the adoption date of every joined record, and the
\* third and fourth field of every card, are text, never the null value.
C16_JoinedFieldsAreText ==
    /\ \A k \in 1..Len(countries_data) :
          /\ countries_data[k].description # None
          /\ countries_data[k].adoption_date # None
    /\ \A k \in 1..Len(deck.notes) :
          /\ deck.notes[k][3] # None
          /\ deck.notes[k][4] # None


\* ---- SpecRequests: one run of either stage, create_anki_deck.main or ----
\* ---- download_flags.main                                             ----

RequestsInit == MainInit \/ DownloadInit

RequestsNext == MainNext \/ DownloadNext

SpecRequests == RequestsInit /\ [][RequestsNext]_vars

\* The event that opens a request of the running stage: the detail fetch in
\* the deck-building loop (run = 0), the existence test that opens every
\* download_image call in the download loop.
RequestEvent == IF run = 0 THEN "fetch" ELSE "exists"

\* The positions of the delays logged for item i.
DelaysOf(i) == {m \in 1..Len(events) : events[m] = Event("sleep", i)}

\* The request logged at position k is followed by a delay before any event
\* of another item.
DelayFollows(k) ==
    \E m \in DelaysOf(events[k].i) :
        /\ m > k
        /\ \A j \in (k + 1)..(m - 1) : events[j].i = events[k].i

\* C17: every detail fetch of the deck-building loop and every download_image
\* call of the download loop is followed by exactly one delay before the next
\* item is taken up, whatever the outcome of the fetch; no two fetches are
\* logged without a delay between them.
C17_DelayAfterEveryRequest ==
    /\ \A k \in 1..Len(events) :
          events[k].ev = RequestEvent
              => DelayFollows(k) /\ Cardinality(DelaysOf(events[k].i)) = 1
    /\ \A k, m \in 1..Len(events) :
          (k < m /\ events[k].ev = "fetch" /\ events[m].ev = "fetch")
              => \E j \in (k + 1)..(m - 1) : events[j].ev = "sleep"

\* C17 witness: the deck-building loop has fetched for two candidates, the
\* first fetch failed and the second gave a page, and a delay follows each.
C17_Witness ==
    /\ run = 0
    /\ Len(fetched) = 2
    /\ FailedResponse(fetched[1])
    /\ ~FailedResponse(fetched[2])
    /\ events = <<Event("match", 1), Event("fetch", 1), Event("sleep", 1),
                  Event("match", 2), Event("fetch", 2), Event("sleep", 2)>>


\* The files written by the running stage: the events of kind write give the
\* positions of their images.
WrittenIndexes == {events[k].i : k \in {j \in 1..Len(events) : events[j].ev = "write"}}

\* The name starts with three digits and an underscore.
HasIndexPrefix(name) ==
    /\ Len(name) > 4
    /\ \A k \in 1..3 : \E d \in 1..Len(DigitChars) : name[k] = DigitChars[d]
    /\ name[4] = "_"

\* C18: every file the download stage writes has a name made of the index
\* prefix, an underscore and a stem, and holds none of the characters
\* < > : " / \ | ? *, whether the stem comes from the alt text or from the URL.
C18_WrittenNamesAreSafe ==
    \A i \in WrittenIndexes :
        LET name == TargetName(flag_images[i], i) IN
        /\ HasIndexPrefix(name)
        /\ join(OUTPUT_DIR, name) \in disk
        /\ \A k \in 1..Len(name) : name[k] \notin InvalidCharSet


\* The positions in the event log of the fetches for the image at position i.
FetchesOf(i) == {k \in 1..Len(events) : events[k] = Event("fetch", i)}

\* C19: images at different positions of the extracted list have different
\* target paths, also when their alt text and URL are the same; in a run
\* started on an empty directory every image taken up so far was fetched
\* exactly once, none being found to exist already.
C19_DistinctTargetPaths ==
    /\ \A i, j \in 1..Len(flag_images) :
          i # j => TargetPath(flag_images[i], i) # TargetPath(flag_images[j], j)
    /\ (run > 0 /\ start_disk = {})
          => \A i \in 1..image_index : Cardinality(FetchesOf(i)) = 1

\* C19 witness: a run started on an empty directory has ended after saving
\* two images that have the same alt text and URL, in two files.
C19_Witness ==
    /\ run > 0
    /\ start_disk = {}
    /\ pc = "download_done"
    /\ Len(flag_images) = 2
    /\ flag_images[1] = flag_images[2]
    /\ Cardinality(FetchesOf(1)) = 1
    /\ Cardinality(FetchesOf(2)) = 1
    /\ Cardinality(disk) = 2
====
